---- MODULE Spec2Model ----
(***************************************************************************)
(* Model of the periodic scanners of NERON: the reminders of the Events    *)
(* cog (src/cogs/events/events.py) and the birthday check of the Birthdays *)
(* cog (src/cogs/birthdays/birthdays.py).                                  *)
(*                                                                         *)
(* The bot runs on one cooperative event loop: a coroutine runs without    *)
(* interruption up to its next await.  Every action below is one such      *)
(* uninterrupted stretch of one handler.                                   *)
(***************************************************************************)
EXTENDS Integers, Sequences, FiniteSets, TLC

\* ------------------------------------------------------------------ bounds
\* Largest value of the clock (datetime.now().timestamp(), in abstract units).
MaxTime == 1
\* Number of rows ever inserted in the reminders tables, all guilds together.
MaxCreated == 2

\* the hours that go by after the construction of the Birthdays cog
MaxElapsed == 2

\* the on_message listeners that wait for their reply at one time
MaxInFlight == 1

\* the limit of triggers of /fixlinks set
MaxTriggers == 20

\* the largest count of the vote reaction on a message
MaxVotes == 3
\* the on_raw_reaction_add listeners that are suspended at one time
MaxHandlers == 2
\* the reposts of one message that are followed
MaxReposts == 2

\* the SendModals that exist at one time
MaxModals == 2
\* the anonymous messages that are delivered
MaxSecrets == 2

\* COOLDOWN_DELAY, in seconds
COOLDOWN_DELAY == 43200
\* the timeout of a SendModal, in seconds
MODAL_TIMEOUT == 600

\* ------------------------------------------------------------- environment
Guilds == {"g1", "g2"}
\* bot.guilds, in the order the client lists them
GuildOrder == <<"g1", "g2">>
Users == {"u1", "u2"}
\* the members that create reminders and subscribe to them
Authors == {"u1"}
\* guild.members, in the order the guild lists them
MemberOrder == <<"u1", "u2">>
\* the channels of each guild (channel ids are unique across guilds)
GuildChannels == [g \in Guilds |-> IF g = "g1" THEN {"c1"} ELSE {"c2"}]
Channels == UNION {GuildChannels[g] : g \in Guilds}
Contents == {"m"}
\* outcomes of an awaited channel.send: it returns, it raises a
\* discord.HTTPException (Forbidden, NotFound, server error), or it raises a
\* connection error (OSError, aiohttp.ClientError, asyncio.TimeoutError)
SendOutcomes == {"ok", "HTTPException", "ConnectionError"}
FailOutcomes == SendOutcomes \ {"ok"}

VARIABLES
    now,                    \* the wall clock
    reminders,              \* the reminders table of each guild, in rowid order
    sqlite_sequence,        \* AUTOINCREMENT counter of each guild's table
    reminders_cache,        \* Events.__reminders_cache: a dict, as a sequence of [k, v]
    liveChannels,           \* channels guild.get_channel resolves to a text channel
    loop,                   \* state of the reminders_loop task
    last_iteration_failed,  \* tasks.Loop: the last iteration raised a connection error
    cache,                  \* reminders_loop's local copy of the cache (the tick's snapshot)
    pos,                    \* reminders_loop's position in the snapshot: <<guild index, row index>>
    pending,                \* the send handle_reminder is suspended in (at most one)
    delivered,              \* history: reminders whose notification was sent
    dupDelivery,            \* history: a reminder was delivered a second time
    attempted,              \* history: reminders a send was attempted for in the current tick
    dupAttempt,             \* history: a second send attempt for a reminder within one tick
    skipped,                \* history: reminders handle_reminder returned early for in the current tick
    dueAtStart,             \* history: cached reminders that were due when the current tick started
    aborted,                \* history: the sends a cancellation of the task interrupted
    author_refused          \* history: /remindme delete refused the author of the reminder

rvars == <<now, reminders, sqlite_sequence, reminders_cache, liveChannels, loop,
           last_iteration_failed, cache, pos, pending, delivered, dupDelivery,
           attempted, dupAttempt, skipped, dueAtStart, aborted, author_refused>>

\* ---- the Birthdays cog
VARIABLES
    bclock,                   \* the wall clock of the birthday check, in hours since day 0, 00:00
    last_check,               \* Birthdays.last_check: '' (<<>>) or the bucket last checked
    bsettings,                \* the settings table of each guild
    birthdays,                \* the global birthdays table: user -> no row (<<>>) or <<row>>
    role_members,             \* the members of each guild that hold its birthday role
    bloop,                    \* state of the birthdays_loop task
    b_last_iteration_failed,  \* tasks.Loop: the last iteration raised a connection error
    bpos,                     \* the await birthdays_loop is suspended in (at most one)
    notified,                 \* history: <<guild, bucket>> of the notifications sent
    dupNotify,                \* history: a guild was notified twice in one bucket
    rechecked                 \* history: a tick found the bucket of last_check again

bvars == <<bclock, last_check, bsettings, birthdays, role_members, bloop,
           b_last_iteration_failed, bpos, notified, dupNotify, rechecked>>

\* ---- the WebUtils cog
VARIABLES
    wsettings,       \* the settings table of each guild
    link_fixes,      \* the link_fixes table of each guild, in rowid order
    triggers_cache,  \* WebUtils.__triggers_cache: a dict, as a sequence of [k, v]
    wpending,        \* the replies on_message is suspended in
    last_reply,      \* history: the last corrected-link reply that was posted
    disabled         \* history: the last /fixlinks enable of the guild was with enable=False

wvars == <<wsettings, link_fixes, triggers_cache, wpending, last_reply, disabled>>

\* ---- the MsgBoard cog
VARIABLES
    msettings,      \* the settings table of each guild
    board_history,  \* the board_history table of each guild: the row of the message, if any
    votes,          \* the count of the vote reaction on the message of each guild
    handlers,       \* the on_raw_reaction_add listeners that are suspended in an await
    reposts,        \* history: the times the message of each guild was sent to the webhook
    board_log,      \* history: the notifications and reposts that were sent
    mdisabled,      \* history: the last /msgboard enable of the guild was with enable=False
    mrefused        \* history: /msgboard threshold refused a threshold for its half notification

mvars == <<msettings, board_history, votes, handlers, reposts, board_log, mdisabled,
           mrefused>>

\* ---- the Secrets cog
VARIABLES
    sclock,      \* the wall clock of the anonymous messages, in seconds
    tracking,    \* the global tracking table, in rowid order
    blacklist,   \* the global blacklist table: owner -> no row (<<>>) or <<blocked_ids>>
    cooldowns,   \* Secrets._cooldowns: a dict, as a sequence of [k, v]
    modals,      \* the SendModals that are open or whose on_submit is suspended
    sdelivered   \* history: the anonymous messages that reached their receiver

svars == <<sclock, tracking, blacklist, cooldowns, modals, sdelivered>>

vars == <<rvars, bvars, wvars, mvars, svars>>

\* ------------------------------------------------------------ dict helpers
\* A Python dict keeps its keys in insertion order.
DictHas(d, k) == \E i \in 1..Len(d) : d[i].k = k

DictGet(d, k) == d[CHOOSE i \in 1..Len(d) : d[i].k = k].v

DictSet(d, k, v) ==
    IF DictHas(d, k)
    THEN [i \in 1..Len(d) |-> IF d[i].k = k THEN [k |-> k, v |-> v] ELSE d[i]]
    ELSE Append(d, [k |-> k, v |-> v])

Ids(rows) == {rows[i].id : i \in 1..Len(rows)}

RECURSIVE SumSeq(_, _)
SumSeq(f, S) == IF S = {} THEN 0
                ELSE LET x == CHOOSE y \in S : TRUE IN f[x] + SumSeq(f, S \ {x})

\* ------------------------------------------------------ store and mirror
\* a SELECT that answers the newest row first
get_reminders_newest_first(db, guild) ==
    [i \in 1..Len(db[guild]) |-> db[guild][Len(db[guild]) + 1 - i]]

\* SELECT * FROM reminders
get_reminders(db, guild) == db[guild]

\* SELECT * FROM reminders WHERE id = ?  (fetchone: a row or None, here a
\* sequence of at most one row)
get_reminder(db, guild, reminder_id) ==
    SelectSeq(db[guild], LAMBDA r : r.id = reminder_id)

update_reminders_cache(S, guild) ==
    [S EXCEPT !.cache = DictSet(S.cache, guild, get_reminders(S.db, guild))]

\* a get_reminders_cache that answers an empty list for every guild
get_reminders_cache_empty(S, guild) ==
    [S |-> IF DictHas(S.cache, guild) THEN S
           ELSE [S EXCEPT !.cache = DictSet(S.cache, guild, <<>>)],
     ret |-> <<>>]

\* get_reminders_cache, as [S |-> the state after it, ret |-> its return
\* value]: a guild that has no entry gets an empty one
get_reminders_cache(S, guild) ==
    LET S1 == IF DictHas(S.cache, guild) THEN S
              ELSE [S EXCEPT !.cache = DictSet(S.cache, guild, <<>>)]
    IN [S |-> S1, ret |-> DictGet(S1.cache, guild)]

\* set_reminder without its call of update_reminders_cache
set_reminder_norefresh(S, guild, content, timestamp, channel, author, userlist) ==
    LET id == S.seq[guild] + 1
        row == [id |-> id, content |-> content, timestamp |-> timestamp,
                channel_id |-> channel, author_id |-> author, userlist |-> userlist]
    IN [S EXCEPT !.db[guild] = Append(@, row), !.seq[guild] = id]

\* INSERT INTO reminders VALUES (NULL, ...): the id is the next AUTOINCREMENT value
set_reminder(S, guild, content, timestamp, channel, author, userlist) ==
    LET id == S.seq[guild] + 1
        row == [id |-> id, content |-> content, timestamp |-> timestamp,
                channel_id |-> channel, author_id |-> author, userlist |-> userlist]
        S1 == [S EXCEPT !.db[guild] = Append(@, row), !.seq[guild] = id]
    IN update_reminders_cache(S1, guild)

\* remove_reminder with the cache refreshed before the row is deleted
remove_reminder_refresh_first(S, guild, reminder_id) ==
    LET S1 == update_reminders_cache(S, guild)
    IN [S1 EXCEPT !.db[guild] = SelectSeq(@, LAMBDA r : r.id # reminder_id)]

remove_reminder(S, guild, reminder_id) ==
    LET S1 == [S EXCEPT !.db[guild] = SelectSeq(@, LAMBDA r : r.id # reminder_id)]
    IN update_reminders_cache(S1, guild)

\* The state the store operations work on.
Cur == [db |-> reminders, seq |-> sqlite_sequence, cache |-> reminders_cache]

Commit(S) ==
    /\ reminders' = S.db
    /\ sqlite_sequence' = S.seq
    /\ reminders_cache' = S.cache

\* ------------------------------------------------------------ subscribers
\* The userlist column is the ids joined by commas; it is modelled as the
\* sequence of its tokens (the empty string is the empty sequence).
InList(userlist, user_id) == \E i \in 1..Len(userlist) : userlist[i] = user_id

\* list.remove: drops the first occurrence
RemoveFirst(userlist, user_id) ==
    LET i == CHOOSE j \in 1..Len(userlist) :
                 /\ userlist[j] = user_id
                 /\ \A k \in 1..(j - 1) : userlist[k] # user_id
    IN [k \in 1..(Len(userlist) - 1) |-> IF k < i THEN userlist[k] ELSE userlist[k + 1]]

SetUserlist(S, guild, reminder_id, userlist) ==
    [S EXCEPT !.db[guild] =
        [i \in 1..Len(@) |-> IF @[i].id = reminder_id
                             THEN [@[i] EXCEPT !.userlist = userlist] ELSE @[i]]]

\* an add_reminder_user that does not look for the user in the userlist
add_reminder_user_nocheck(S, guild, reminder_id, user_id) ==
    LET reminder == get_reminder(S.db, guild, reminder_id) IN
    IF reminder = <<>> THEN [S |-> S, ret |-> FALSE]
    ELSE [S |-> update_reminders_cache(
                    SetUserlist(S, guild, reminder_id, Append(reminder[1].userlist, user_id)),
                    guild),
          ret |-> TRUE]

\* add_reminder_user, as [S |-> the state after it, ret |-> its return value]
add_reminder_user(S, guild, reminder_id, user_id) ==
    LET reminder == get_reminder(S.db, guild, reminder_id) IN
    IF reminder = <<>> THEN [S |-> S, ret |-> FALSE]
    ELSE IF reminder[1].userlist = <<>>
    THEN [S |-> update_reminders_cache(SetUserlist(S, guild, reminder_id, <<user_id>>), guild),
          ret |-> TRUE]
    ELSE IF ~InList(reminder[1].userlist, user_id)
    THEN [S |-> update_reminders_cache(
                    SetUserlist(S, guild, reminder_id, Append(reminder[1].userlist, user_id)),
                    guild),
          ret |-> TRUE]
    ELSE [S |-> S, ret |-> FALSE]

remove_reminder_user(S, guild, reminder_id, user_id) ==
    LET reminder == get_reminder(S.db, guild, reminder_id) IN
    IF reminder = <<>> THEN S
    ELSE IF reminder[1].userlist = <<>> THEN S
    ELSE IF ~InList(reminder[1].userlist, user_id) THEN S
    ELSE update_reminders_cache(
             SetUserlist(S, guild, reminder_id, RemoveFirst(reminder[1].userlist, user_id)),
             guild)

\* the members of the guild that are in the reminder's userlist, in member order
get_reminder_users(db, guild, reminder_id) ==
    LET reminder == get_reminder(db, guild, reminder_id) IN
    IF reminder = <<>> THEN <<>>
    ELSE IF reminder[1].userlist = <<>> THEN <<>>
    ELSE SelectSeq(MemberOrder, LAMBDA m : InList(reminder[1].userlist, m))

\* the channel of a reminder: None (<<>>) when the row is gone or the channel
\* no longer resolves to a text channel or thread of the guild
get_reminder_channel(db, guild, reminder_id) ==
    LET reminder == get_reminder(db, guild, reminder_id) IN
    IF reminder = <<>> THEN <<>>
    ELSE IF reminder[1].channel_id \notin (liveChannels \cap GuildChannels[guild]) THEN <<>>
    ELSE <<reminder[1].channel_id>>

\* ------------------------------------------------------------- dispatcher
\* handle_reminder up to its await: <<>> when it returns early, else the
\* message it hands to channel.send.
handle_reminder_begin(db, guild, reminder_id) ==
    LET reminder == get_reminder(db, guild, reminder_id)
        channel == get_reminder_channel(db, guild, reminder_id)
        users == get_reminder_users(db, guild, reminder_id)
    IN IF reminder = <<>> THEN <<>>
       ELSE IF channel = <<>> THEN <<>>
       ELSE <<[guild |-> guild, id |-> reminder_id, channel |-> channel[1],
               mentions |-> users]>>

\* handle_reminder that forgets to remove the reminder it has sent
handle_reminder_end_noremove(S, guild, reminder_id) == S

\* handle_reminder after its await returned: the reminder is removed
handle_reminder_end(S, guild, reminder_id) == remove_reminder(S, guild, reminder_id)

\* bot.get_guild
get_guild(guild_id) == IF guild_id \in Guilds THEN <<guild_id>> ELSE <<>>

\* a scan that dispatches whatever is cached
is_due_never_checked(reminder) == TRUE

\* the due predicate of reminders_loop
is_due(reminder) == reminder.timestamp <= now

\* a scan that stops at the first reminder handle_reminder returns early for
RECURSIVE ScanStopsAtEarlyReturn(_, _, _, _, _)
ScanStopsAtEarlyReturn(snap, db, gi, ri, acc) ==
    IF gi > Len(snap) THEN [done |-> TRUE, gi |-> 0, ri |-> 0, skipped |-> acc, msg |-> <<>>]
    ELSE IF get_guild(snap[gi].k) = <<>> THEN ScanStopsAtEarlyReturn(snap, db, gi + 1, 1, acc)
    ELSE IF ri > Len(snap[gi].v) THEN ScanStopsAtEarlyReturn(snap, db, gi + 1, 1, acc)
    ELSE LET reminder == snap[gi].v[ri] IN
         IF is_due(reminder)
         THEN LET msg == handle_reminder_begin(db, snap[gi].k, reminder.id) IN
              IF msg = <<>>
              THEN [done |-> TRUE, gi |-> 0, ri |-> 0,
                    skipped |-> acc \cup {<<snap[gi].k, reminder.id>>}, msg |-> <<>>]
              ELSE [done |-> FALSE, gi |-> gi, ri |-> ri, skipped |-> acc, msg |-> msg]
         ELSE ScanStopsAtEarlyReturn(snap, db, gi, ri + 1, acc)

\* reminders_loop from position <<gi, ri>> of its snapshot up to the next
\* await: the rows that are not due are passed, handle_reminder is called for
\* the due ones, and the scan stops at the first send (or at the end).
RECURSIVE Scan(_, _, _, _, _)
Scan(snap, db, gi, ri, acc) ==
    IF gi > Len(snap) THEN [done |-> TRUE, gi |-> 0, ri |-> 0, skipped |-> acc, msg |-> <<>>]
    ELSE IF get_guild(snap[gi].k) = <<>> THEN Scan(snap, db, gi + 1, 1, acc)
    ELSE IF ri > Len(snap[gi].v) THEN Scan(snap, db, gi + 1, 1, acc)
    ELSE LET reminder == snap[gi].v[ri] IN
         IF is_due(reminder)
         THEN LET msg == handle_reminder_begin(db, snap[gi].k, reminder.id) IN
              IF msg = <<>>
              THEN Scan(snap, db, gi, ri + 1, acc \cup {<<snap[gi].k, reminder.id>>})
              ELSE [done |-> FALSE, gi |-> gi, ri |-> ri, skipped |-> acc, msg |-> msg]
         ELSE Scan(snap, db, gi, ri + 1, acc)

\* the cached reminders whose timestamp has passed
DueIn(d) ==
    UNION {{<<d[i].k, d[i].v[j].id>> :
               j \in {n \in 1..Len(d[i].v) : d[i].v[n].timestamp <= now}} :
           i \in 1..Len(d)}
\* =========================================================== Birthdays cog
\* The wall clock counts hours; within the horizon every '%d/%m' names one day,
\* so that a bucket '%d/%m:%H' is a pair <<day, hour>>.
Day(t) == t \div 24

Hour(t) == t % 24

\* datetime.now().strftime('%d/%m:%H'), of the system clock
Bucket(t) == <<Day(t), Hour(t)>>

\* the Timezone setting of each guild (Core), as whole hours ahead of the
\* system clock
TzOffset == [g \in Guilds |-> IF g = "g1" THEN 0 ELSE 1]

\* guild.members, in the order of the ids
Members == [g \in Guilds |-> IF g = "g1" THEN <<"u1", "u2">> ELSE <<"u1">>]

\* the members whose commands are enumerated
BirthdayUsers == {"u1"}

\* the dates and hours the commands are given
Dates == {0, 1}

NotificationHours == {0}

RoleIds == {"r"}

\* default_settings of the cog
default_settings == [NotificationChannelID |-> "0", NotificationHour |-> 12,
                     BirthdayRoleID |-> "0"]

\* set_user_birthday: INSERT OR REPLACE of (user_id, birthday); the column
\* guilds_hidden of the new row takes its default ''
set_user_birthday(tbl, user, birthday) ==
    [tbl EXCEPT ![user] = <<[birthday |-> birthday, guilds_hidden |-> <<>>]>>]

remove_user_birthday(tbl, user) == [tbl EXCEPT ![user] = <<>>]

get_user_settings(tbl, user) == tbl[user]

set_user_settings(tbl, user, birthday, guilds_hidden) ==
    [tbl EXCEPT ![user] = <<[birthday |-> birthday, guilds_hidden |-> guilds_hidden]>>]

get_hidden_guilds(tbl, user) ==
    IF get_user_settings(tbl, user) = <<>> THEN <<>>
    ELSE get_user_settings(tbl, user)[1].guilds_hidden

\* add_hidden_guild and remove_hidden_guild answer [tbl, ret]
add_hidden_guild(tbl, user, guild) ==
    LET r == get_user_settings(tbl, user) IN
    IF r # <<>> /\ ~InList(r[1].guilds_hidden, guild)
    THEN [tbl |-> set_user_settings(tbl, user, r[1].birthday,
                                    Append(r[1].guilds_hidden, guild)),
          ret |-> TRUE]
    ELSE [tbl |-> tbl, ret |-> FALSE]

remove_hidden_guild(tbl, user, guild) ==
    LET r == get_user_settings(tbl, user) IN
    IF r # <<>> /\ InList(r[1].guilds_hidden, guild)
    THEN [tbl |-> set_user_settings(tbl, user, r[1].birthday,
                                    RemoveFirst(r[1].guilds_hidden, guild)),
          ret |-> TRUE]
    ELSE [tbl |-> tbl, ret |-> FALSE]

\* a get_birthday_channel that answers a channel for every id that is set
get_birthday_channel_unresolved(guild) ==
    IF bsettings[guild].NotificationChannelID # "0"
    THEN <<bsettings[guild].NotificationChannelID>>
    ELSE <<>>

\* get_birthday_channel and the isinstance test of the loop: the channel the
\* setting names, when it is still a text channel of the guild
get_birthday_channel(guild) ==
    IF bsettings[guild].NotificationChannelID \in liveChannels \cap GuildChannels[guild]
    THEN <<bsettings[guild].NotificationChannelID>>
    ELSE <<>>

\* the hour of datetime.now(tz) is compared with the setting
is_notification_hour(guild) ==
    Hour(bclock + TzOffset[guild]) = bsettings[guild].NotificationHour

is_role_attribution_hour(guild) == Hour(bclock + TzOffset[guild]) = 0

get_birthday_role(guild) ==
    IF bsettings[guild].BirthdayRoleID \in RoleIds
    THEN <<bsettings[guild].BirthdayRoleID>>
    ELSE <<>>

\* get_birthdays: the rows of the table whose user is a member of the guild
get_birthdays(guild) == SelectSeq(Members[guild], LAMBDA m : birthdays[m] # <<>>)

\* get_birthdays_today: day and month are those of the system clock
get_birthdays_today(guild) ==
    SelectSeq(get_birthdays(guild),
              LAMBDA m : /\ birthdays[m][1].birthday = Day(bclock)
                         /\ ~InList(get_hidden_guilds(birthdays, m), guild))

\* the run of birthdays_loop is over
BDone == [done |-> TRUE, gi |-> 0, at |-> "", mi |-> 0, today |-> <<>>, member |-> <<>>]

BAwait(gi, at, mi, today, member) ==
    [done |-> FALSE, gi |-> gi, at |-> at, mi |-> mi, today |-> today, member |-> <<member>>]

\* a test on last_check that lets every tick check the birthdays
NewBucket_always(check, t) == TRUE

\* the test on last_check that opens the check of the birthdays
NewBucket(check, t) == check # <<Bucket(t)>>

\* birthdays_loop, run from a point of its body up to the await it suspends
\* in.  The points of the body for the guild number gi: "guild" its first
\* line, "role" the line after the send, "remove" and "add" the two loops on
\* the members, from their member number mi.  roles is the birthday role's
\* holders, today the list get_birthdays_today gave for the guild.
RECURSIVE BirthdayScan(_, _, _, _, _)
BirthdayScan(roles, gi, at, mi, today) ==
    IF gi > Len(GuildOrder) THEN BDone
    ELSE LET guild == GuildOrder[gi] IN
      CASE at = "guild" ->
             LET birthdays_today == get_birthdays_today(guild) IN
             IF birthdays_today = <<>> THEN BirthdayScan(roles, gi + 1, "guild", 1, <<>>)
             ELSE IF get_birthday_channel(guild) # <<>>
             THEN IF ~is_notification_hour(guild)
                  THEN BirthdayScan(roles, gi + 1, "guild", 1, <<>>)
                  ELSE BAwait(gi, "send", 1, birthdays_today, guild)
             ELSE BirthdayScan(roles, gi, "role", 1, birthdays_today)
        [] at = "role" ->
             IF ~is_role_attribution_hour(guild)
             THEN BirthdayScan(roles, gi + 1, "guild", 1, <<>>)
             ELSE IF get_birthday_role(guild) = <<>>
             THEN BirthdayScan(roles, gi + 1, "guild", 1, <<>>)
             ELSE BirthdayScan(roles, gi, "remove", 1, today)
        [] at = "remove" ->
             IF mi > Len(Members[guild]) THEN BirthdayScan(roles, gi, "add", 1, today)
             ELSE IF InList(today, Members[guild][mi])
             THEN BirthdayScan(roles, gi, "remove", mi + 1, today)
             ELSE IF Members[guild][mi] \in roles[guild]
             THEN BAwait(gi, "remove_roles", mi, today, Members[guild][mi])
             ELSE BirthdayScan(roles, gi, "remove", mi + 1, today)
        [] at = "add" ->
             IF mi > Len(today) THEN BirthdayScan(roles, gi + 1, "guild", 1, <<>>)
             ELSE IF today[mi] \notin roles[guild]
             THEN BAwait(gi, "add_roles", mi, today, today[mi])
             ELSE BirthdayScan(roles, gi, "add", mi + 1, today)

\* the construction of the Birthdays cog: no check has been made; the guilds
\* have the default settings, and a member of g1 holds its birthday role
BirthdaysInit ==
    /\ bclock = 23
    /\ last_check = <<>>
    /\ bsettings = [g \in Guilds |-> default_settings]
    /\ birthdays = [u \in Users |-> <<>>]
    /\ role_members = [g \in Guilds |-> IF g = "g1" THEN {"u2"} ELSE {}]
    /\ bloop = "unstarted"
    /\ b_last_iteration_failed = FALSE
    /\ bpos = <<>>
    /\ notified = {}
    /\ dupNotify = FALSE
    /\ rechecked = FALSE


\* ============================================================ WebUtils cog
\* A link is <<base, rest>>: the start of the URL, which a trigger can
\* replace, and what follows it.  A message has at most one link.
Bases == {"https://twitter.com/", "https://x.com/", "https://example.org/"}

Links == {<<b, "status/1">> : b \in Bases}

Messages == {<<>>} \cup {<<l>> : l \in Links}

\* the parameters given to /fixlinks set
Searches == {"https://twitter.com/", "https://x.com/", "https://exa mple/"}

Replaces == {"https://vxtwitter.com/"}

\* DEFAULT_TRIGGERS (its first two)
DEFAULT_TRIGGERS ==
    << [label |-> "twitter.com", search |-> "https://twitter.com/",
        replace |-> "https://vxtwitter.com/"],
       [label |-> "x.com", search |-> "https://x.com/",
        replace |-> "https://vxtwitter.com/"] >>

\* the settings table of a guild: a key has <<value>>, or <<>> when no row
\* has it.  default_settings of the cog
web_default_settings ==
    [EnableFixLinks |-> <<1>>, CancelFixButton |-> <<1>>, EnableLinkFix |-> <<>>]

\* dataio.set_keyvalue_table_value: the row of the key gets the value
set_keyvalue_table_value(tbl, guild, key, value) ==
    [tbl EXCEPT ![guild][key] = <<value>>]

\* dataio.get_keyvalue_table_value
get_keyvalue_table_value(tbl, guild, key) == tbl[guild][key][1]

\* SELECT * FROM link_fixes
get_triggers(db, guild) == db[guild]

\* SELECT * FROM link_fixes WHERE label = ?
get_trigger(db, guild, label) == SelectSeq(db[guild], LAMBDA t : t.label = label)

\* INSERT OR REPLACE INTO link_fixes: the row of the label, if any, is
\* deleted and the new row is added last
set_trigger(db, guild, label, search, replace) ==
    [db EXCEPT ![guild] =
        Append(SelectSeq(@, LAMBDA t : t.label # label),
               [label |-> label, search |-> search, replace |-> replace])]

delete_trigger(db, guild, label) ==
    [db EXCEPT ![guild] = SelectSeq(@, LAMBDA t : t.label # label)]

\* get_triggers_cache, as [cache |-> the cache after it, ret |-> its return
\* value]: the entry of a guild is filled from the table when it is missing
get_triggers_cache(tcache, db, guild) ==
    LET c == IF DictHas(tcache, guild) THEN tcache
             ELSE DictSet(tcache, guild, get_triggers(db, guild))
    IN [cache |-> c, ret |-> DictGet(c, guild)]

update_triggers_cache(tcache, db, guild) == DictSet(tcache, guild, get_triggers(db, guild))

\* get_label_for: the domain name of the URL, None (<<>>) when it is not one
get_label_for(base_url) ==
    IF base_url = "https://twitter.com/" THEN <<"twitter.com">>
    ELSE IF base_url = "https://x.com/" THEN <<"x.com">>
    ELSE <<>>

\* re.sub(trigger['search'], trigger['replace'], links_content), for the
\* triggers in their order
RECURSIVE ApplyTriggers(_, _, _)
ApplyTriggers(triggers, i, links) ==
    IF i > Len(triggers) THEN links
    ELSE ApplyTriggers(triggers, i + 1,
            [n \in 1..Len(links) |->
                IF links[n][1] = triggers[i].search
                THEN <<triggers[i].replace, links[n][2]>>
                ELSE links[n]])

\* bool(get_keyvalue_table_value(guild, 'settings', 'EnableFixLinks'))
fix_enabled(tbl, guild) == get_keyvalue_table_value(tbl, guild, "EnableFixLinks") # 0

\* the construction of the WebUtils cog: the tables of the guilds have the
\* default values and the cache of the triggers is empty
WebUtilsInit ==
    /\ wsettings = [g \in Guilds |-> web_default_settings]
    /\ link_fixes = [g \in Guilds |-> DEFAULT_TRIGGERS]
    /\ triggers_cache = <<>>
    /\ wpending = <<>>
    /\ last_reply = <<>>
    /\ disabled = [g \in Guilds |-> FALSE]

\* ============================================================ MsgBoard cog
\* The guilds whose board is followed; each has one recent message
\* (younger than MaxMessageAge) that members vote on.
BoardGuilds == {"g1"}

\* the values given to /msgboard threshold
Thresholds == {2, 3}

\* default_settings of the cog (the emoji and the age limit are not followed:
\* a reaction has the vote emoji or another one)
board_default_settings ==
    [Enabled |-> <<0>>, Threshold |-> <<3>>, NotifyHalfThreshold |-> <<0>>,
     Webhook_URL |-> <<"">>]

\* get_message_history: the row of the message, {} (<<>>) when it has none
get_message_history(hist, guild) == hist[guild]

\* get_message_history(message).get('reposted')
history_reposted(hist, guild) ==
    get_message_history(hist, guild) # <<>> /\ get_message_history(hist, guild)[1].reposted

\* get_message_history(message).get('notification_id')
history_notification_id(hist, guild) ==
    IF get_message_history(hist, guild) = <<>> THEN 0
    ELSE get_message_history(hist, guild)[1].notification_id

\* set_message_history: the row is inserted when it is missing, then reposted
\* and notification_id are updated when they are given
set_message_history(hist, guild, reposted, notification_id) ==
    LET h0 == IF get_message_history(hist, guild) = <<>>
              THEN [reposted |-> FALSE, notification_id |-> 0]
              ELSE hist[guild][1]
        h1 == IF reposted THEN [h0 EXCEPT !.reposted = TRUE] ELSE h0
        h2 == IF notification_id # 0 THEN [h1 EXCEPT !.notification_id = notification_id]
              ELSE h1
    IN [hist EXCEPT ![guild] = <<h2>>]

\* repost_message, up to its webhook.send: nothing is sent without a webhook.
\* The listener h goes on in the send (<<h'>>) or is over (<<>>).
repost_message(h, settings) ==
    IF get_keyvalue_table_value(settings, h.guild, "Webhook_URL") = "" THEN <<>>
    ELSE <<[h EXCEPT !.pos = "webhook_send"]>>

\* on_raw_reaction_add from its test of the threshold (line 211) to its next
\* await: send_threshold_notification replies when the bot may manage the
\* messages of the channel, and returns at once when it may not
threshold_check(h, hist, settings, manage_messages) ==
    IF h.votes_count = h.threshold /\ ~history_reposted(hist, h.guild)
    THEN IF manage_messages THEN <<[h EXCEPT !.pos = "threshold_reply"]>>
         ELSE repost_message(h, settings)
    ELSE <<>>

\* the listeners, with the i-th replaced by r (<<>> when it is over)
Resume(hs, i, r) == SubSeq(hs, 1, i - 1) \o r \o SubSeq(hs, i + 1, Len(hs))

\* the construction of the MsgBoard cog
MsgBoardInit ==
    /\ msettings = [g \in Guilds |-> board_default_settings]
    /\ board_history = [g \in Guilds |-> <<>>]
    /\ votes = [g \in Guilds |-> 0]
    /\ handlers = <<>>
    /\ reposts = [g \in Guilds |-> 0]
    /\ board_log = {}
    /\ mdisabled = [g \in Guilds |-> FALSE]
    /\ mrefused = FALSE

\* ============================================================= Secrets cog
\* the members that send anonymous messages (no user is a bot)
Senders == {"u1"}

\* the instants the clock is read at
Instants == {0, MODAL_TIMEOUT, COOLDOWN_DELAY, COOLDOWN_DELAY + MODAL_TIMEOUT}

\* ",".join(map(str, blocked_ids)): the text lists the ids of the set, here
\* in the order of MemberOrder
JoinIds(ids) == SelectSeq(MemberOrder, LAMBDA u : u \in ids)

\* set(map(int, text.split(',')))
SplitIds(text) == {text[i] : i \in 1..Len(text)}

\* add_tracking: INSERT INTO tracking
add_tracking(tbl, message_id, sender) ==
    Append(tbl, [message_id |-> message_id, sender_id |-> sender])

\* get_tracking: the sender of the message, None (<<>>) for an unknown id
get_tracking(tbl, message_id) ==
    LET rows == SelectSeq(tbl, LAMBDA r : r.message_id = message_id) IN
    IF rows = <<>> THEN <<>> ELSE <<rows[1].sender_id>>

get_blacklist(tbl, owner) ==
    IF tbl[owner] = <<>> THEN {} ELSE SplitIds(tbl[owner][1])

add_blacklist(tbl, owner, blocked) ==
    [tbl EXCEPT ![owner] = <<JoinIds(get_blacklist(tbl, owner) \cup {blocked})>>]

\* remove_blacklist: the row is deleted when its last id is removed
remove_blacklist(tbl, owner, blocked) ==
    IF tbl[owner] = <<>> THEN tbl
    ELSE IF SplitIds(tbl[owner][1]) \ {blocked} # {}
    THEN [tbl EXCEPT ![owner] = <<JoinIds(SplitIds(tbl[owner][1]) \ {blocked})>>]
    ELSE [tbl EXCEPT ![owner] = <<>>]

\* the test of the cooldown in send_anonymous_message: cd and now < cd
in_cooldown(cds, author, user, t) ==
    DictHas(cds, <<author, user>>) /\ t < DictGet(cds, <<author, user>>)

\* the modals, with the i-th replaced by r (<<>> when it is closed)
ModalResume(ms, i, r) == SubSeq(ms, 1, i - 1) \o r \o SubSeq(ms, i + 1, Len(ms))

\* the construction of the Secrets cog
SecretsInit ==
    /\ sclock = 0
    /\ tracking = <<>>
    /\ blacklist = [u \in Users |-> <<>>]
    /\ cooldowns = <<>>
    /\ modals = <<>>
    /\ sdelivered = <<>>

\* ============================================================== Events cog

\* The tables outlive the process: at construction the table of a guild is
\* empty or holds a reminder stored by an earlier run.
Persisted ==
    {<<>>, <<[id |-> 1, content |-> "m", timestamp |-> 0, channel_id |-> "c1",
              author_id |-> "u1", userlist |-> <<>>]>>}

Init ==
    /\ now = 0
    /\ \E rows \in Persisted :
          /\ reminders = [g \in Guilds |-> IF g = "g1" THEN rows ELSE <<>>]
          /\ sqlite_sequence = [g \in Guilds |-> IF g = "g1" THEN Len(rows) ELSE 0]
    /\ reminders_cache = <<>>
    /\ liveChannels = Channels
    /\ loop = "unstarted"
    /\ last_iteration_failed = FALSE
    /\ cache = <<>>
    /\ pos = <<0, 0>>
    /\ pending = <<>>
    /\ delivered = {}
    /\ dupDelivery = FALSE
    /\ attempted = {}
    /\ dupAttempt = FALSE
    /\ skipped = {}
    /\ dueAtStart = {}
    /\ aborted = {}
    /\ author_refused = FALSE
    /\ BirthdaysInit
    /\ WebUtilsInit
    /\ MsgBoardInit
    /\ SecretsInit

\* ----------------------------------------------------------------- actions
\* an on_ready that starts the loop and refreshes no cache
on_ready_norefresh ==
    /\ loop \in {"unstarted", "failed"}
    /\ loop' = "sleeping"
    /\ last_iteration_failed' = FALSE
    /\ Commit(Cur)
    /\ attempted' = {}
    /\ skipped' = {}
    /\ dueAtStart' = {}
    /\ UNCHANGED <<now, liveChannels, cache, pos, pending, delivered, dupDelivery,
                   dupAttempt>>
    /\ UNCHANGED <<aborted, author_refused>>
    /\ UNCHANGED bvars
    /\ UNCHANGED <<wvars, mvars, svars>>

\* on_ready: start() launches the task (it raises RuntimeError, before the
\* caches are touched, when the task is still alive), then the cache of every
\* guild of the bot is refreshed.  The first iteration runs when on_ready has
\* given the control back.
RECURSIVE RefreshAll(_, _)
RefreshAll(S, i) ==
    IF i > Len(GuildOrder) THEN S
    ELSE RefreshAll(update_reminders_cache(S, GuildOrder[i]), i + 1)

on_ready ==
    /\ loop \in {"unstarted", "failed"}
    /\ loop' = "sleeping"
    /\ last_iteration_failed' = FALSE
    /\ Commit(RefreshAll(Cur, 1))
    /\ attempted' = {}
    /\ skipped' = {}
    /\ dueAtStart' = {}
    /\ UNCHANGED <<now, liveChannels, cache, pos, pending, delivered, dupDelivery,
                   dupAttempt>>
    /\ UNCHANGED <<aborted, author_refused>>
    /\ UNCHANGED bvars
    /\ UNCHANGED <<wvars, mvars, svars>>

\* The tick goes on from the result of a scan: it is suspended in the next
\* send, or it is over.
Proceed(res, done_attempts) ==
    IF res.done
    THEN /\ loop' = "sleeping"
         /\ last_iteration_failed' = FALSE
         /\ cache' = <<>>
         /\ pos' = <<0, 0>>
         /\ pending' = <<>>
         /\ attempted' = done_attempts
         /\ dupAttempt' = dupAttempt
    ELSE /\ loop' = "running"
         /\ UNCHANGED last_iteration_failed
         /\ pos' = <<res.gi, res.ri>>
         /\ pending' = res.msg
         /\ attempted' = done_attempts \cup {<<res.msg[1].guild, res.msg[1].id>>}
         /\ dupAttempt' = (dupAttempt \/ <<res.msg[1].guild, res.msg[1].id>> \in done_attempts)

\* an iteration that starts without waiting for the end of the one before
TickStart_overlapping ==
    /\ loop \in {"sleeping", "running"}
    /\ LET res == Scan(reminders_cache, reminders, 1, 1, {}) IN
        /\ Proceed(res, {})
        /\ cache' = IF res.done THEN <<>> ELSE reminders_cache
        /\ skipped' = res.skipped
    /\ dueAtStart' = DueIn(reminders_cache)
    /\ UNCHANGED <<now, reminders, sqlite_sequence, reminders_cache, liveChannels,
                   delivered, dupDelivery>>
    /\ UNCHANGED <<aborted, author_refused>>
    /\ UNCHANGED bvars
    /\ UNCHANGED <<wvars, mvars, svars>>

\* One iteration of reminders_loop starts: it copies the cache and scans it
\* up to its first send.
TickStart ==
    /\ loop = "sleeping"
    /\ LET res == Scan(reminders_cache, reminders, 1, 1, {}) IN
        /\ Proceed(res, {})
        /\ cache' = IF res.done THEN <<>> ELSE reminders_cache
        /\ skipped' = res.skipped
    /\ dueAtStart' = DueIn(reminders_cache)
    /\ UNCHANGED <<now, reminders, sqlite_sequence, reminders_cache, liveChannels,
                   delivered, dupDelivery>>
    /\ UNCHANGED <<aborted, author_refused>>
    /\ UNCHANGED bvars
    /\ UNCHANGED <<wvars, mvars, svars>>

\* channel.send returned: handle_reminder removes the reminder and
\* reminders_loop goes on with the rest of its snapshot.
SendOk ==
    /\ loop = "running"
    /\ LET m == pending[1]
           S1 == handle_reminder_end(Cur, m.guild, m.id)
           res == Scan(cache, S1.db, pos[1], pos[2] + 1, skipped)
       IN /\ Commit(S1)
          /\ delivered' = delivered \cup {<<m.guild, m.id>>}
          /\ dupDelivery' = (dupDelivery \/ <<m.guild, m.id>> \in delivered)
          /\ Proceed(res, attempted)
          /\ cache' = IF res.done THEN <<>> ELSE cache
          /\ skipped' = res.skipped
    /\ UNCHANGED <<now, liveChannels, dueAtStart>>
    /\ UNCHANGED <<aborted, author_refused>>
    /\ UNCHANGED bvars
    /\ UNCHANGED <<wvars, mvars, svars>>

\* channel.send raised: nothing in handle_reminder or reminders_loop catches
\* it.  tasks.loop retries the iteration after a back-off when the exception is
\* a connection error, and ends the task on any other exception.
SendRaises(exc) ==
    /\ loop = "running"
    /\ exc \in FailOutcomes
    /\ loop' = IF exc = "ConnectionError" THEN "sleeping" ELSE "failed"
    /\ last_iteration_failed' = (exc = "ConnectionError")
    /\ cache' = <<>>
    /\ pos' = <<0, 0>>
    /\ pending' = <<>>
    /\ UNCHANGED <<now, reminders, sqlite_sequence, reminders_cache, liveChannels,
                   delivered, dupDelivery, attempted, dupAttempt, skipped, dueAtStart>>
    /\ UNCHANGED <<aborted, author_refused>>
    /\ UNCHANGED bvars
    /\ UNCHANGED <<wvars, mvars, svars>>

\* the time strings given to /remindme create: <<d>> is a string one of the
\* formats parses to the time d, <<>> a string none of the formats parses
TimeStrings == {<<>>} \cup {<<d>> : d \in 0..MaxTime}

\* what the host's clock is ahead by, when its reading is taken for a time of
\* the guild's timezone (date.replace(tzinfo=tz) keeps the reading)
ClockAhead == {-1, 0, 1}

\* extract_time_from_string: the date of the first format that parses the
\* string, and a reading of the clock when none does; never None.  naive is
\* the date without timezone (the one that is stored), instant the same
\* reading taken as a time of the guild's timezone (the one that is compared).
extract_time_from_string(string, ahead) ==
    IF string = <<>>
    THEN <<[naive |-> now, instant |-> now + ahead, parsed |-> FALSE]>>
    ELSE <<[naive |-> string[1], instant |-> string[1] + ahead, parsed |-> TRUE]>>

\* date < datetime.now(tz=tz): a date that is a reading of the clock was read
\* before the clock is read again
already_past(date) ==
    IF date.parsed THEN date.instant < now ELSE date.instant <= now

\* /remindme create: the date must be one and must not be in the past; the
\* reminder is stored for the channel of the interaction, with its author
\* subscribed or not.
create_reminder_command(guild, channel, user, content, time, self_sub, ahead) ==
    /\ loop # "cancelled"
    /\ SumSeq(sqlite_sequence, Guilds) < MaxCreated
    /\ channel \in liveChannels \cap GuildChannels[guild]
    /\ LET date == extract_time_from_string(time, ahead) IN
        /\ date # <<>>
        /\ ~already_past(date[1])
        /\ LET S1 == set_reminder(Cur, guild, content, date[1].naive, channel, user,
                                  IF self_sub THEN <<user>> ELSE <<>>)
           IN Commit(get_reminders_cache(S1, guild).S)
    /\ UNCHANGED <<now, liveChannels, loop, last_iteration_failed, cache, pos, pending,
                   delivered, dupDelivery, attempted, dupAttempt, skipped, dueAtStart>>
    /\ UNCHANGED <<aborted, author_refused>>
    /\ UNCHANGED bvars
    /\ UNCHANGED <<wvars, mvars, svars>>

\* /remindme delete, as [S |-> the state after it, ret |-> the reply it
\* sends]: `manage_guild` is the member's guild permission, `confirmed` the
\* answer given to ask_confirm
delete_reminder_outcome(S, guild, reminder_id, user, manage_guild, confirmed) ==
    LET reminder == get_reminder(S.db, guild, reminder_id) IN
    IF reminder = <<>> THEN [S |-> S, ret |-> "Rappel introuvable"]
    ELSE IF user # reminder[1].author_id \/ ~manage_guild
         THEN [S |-> S, ret |-> "Permissions insuffisantes"]
    ELSE IF ~confirmed THEN [S |-> S, ret |-> "Suppression annulee"]
    ELSE [S |-> remove_reminder(S, guild, reminder_id), ret |-> "Rappel supprime"]

\* /remindme delete
delete_reminder_command(guild, reminder_id, user, manage_guild, confirmed) ==
    /\ loop # "cancelled"
    /\ Commit(delete_reminder_outcome(Cur, guild, reminder_id, user, manage_guild,
                                      confirmed).S)
    /\ UNCHANGED <<now, liveChannels, loop, last_iteration_failed, cache, pos, pending,
                   delivered, dupDelivery, attempted, dupAttempt, skipped, dueAtStart>>
    /\ author_refused' =
          (\/ author_refused
           \/ /\ get_reminder(reminders, guild, reminder_id) # <<>>
              /\ get_reminder(reminders, guild, reminder_id)[1].author_id = user
              /\ delete_reminder_outcome(Cur, guild, reminder_id, user, manage_guild,
                                         confirmed).ret = "Permissions insuffisantes")
    /\ UNCHANGED aborted
    /\ UNCHANGED bvars
    /\ UNCHANGED <<wvars, mvars, svars>>

\* the subscription button and /remindme subscribe, once confirmed
subscribe_reminder_command(guild, reminder_id, user) ==
    /\ loop # "cancelled"
    /\ reminder_id \in 1..sqlite_sequence[guild]
    /\ Commit(add_reminder_user(Cur, guild, reminder_id, user).S)
    /\ UNCHANGED <<now, liveChannels, loop, last_iteration_failed, cache, pos, pending,
                   delivered, dupDelivery, attempted, dupAttempt, skipped, dueAtStart>>
    /\ UNCHANGED <<aborted, author_refused>>
    /\ UNCHANGED bvars
    /\ UNCHANGED <<wvars, mvars, svars>>

\* /remindme unsubscribe
unsubscribe_reminder_command(guild, reminder_id, user) ==
    /\ loop # "cancelled"
    /\ get_reminder(reminders, guild, reminder_id) # <<>>
    /\ InList(get_reminder(reminders, guild, reminder_id)[1].userlist, user)
    /\ Commit(remove_reminder_user(Cur, guild, reminder_id, user))
    /\ UNCHANGED <<now, liveChannels, loop, last_iteration_failed, cache, pos, pending,
                   delivered, dupDelivery, attempted, dupAttempt, skipped, dueAtStart>>
    /\ UNCHANGED <<aborted, author_refused>>
    /\ UNCHANGED bvars
    /\ UNCHANGED <<wvars, mvars, svars>>

\* the clock advances
Advance ==
    /\ now < MaxTime
    /\ now' = now + 1
    /\ UNCHANGED <<reminders, sqlite_sequence, reminders_cache, liveChannels, loop,
                   last_iteration_failed, cache, pos, pending, delivered, dupDelivery,
                   attempted, dupAttempt, skipped, dueAtStart>>
    /\ UNCHANGED <<aborted, author_refused>>
    /\ UNCHANGED bvars
    /\ UNCHANGED <<wvars, mvars, svars>>

\* a channel is deleted from its guild
ChannelDelete(channel) ==
    /\ channel \in liveChannels
    /\ liveChannels' = liveChannels \ {channel}
    /\ UNCHANGED <<now, reminders, sqlite_sequence, reminders_cache, loop,
                   last_iteration_failed, cache, pos, pending, delivered, dupDelivery,
                   attempted, dupAttempt, skipped, dueAtStart>>
    /\ UNCHANGED <<aborted, author_refused>>
    /\ UNCHANGED bvars
    /\ UNCHANGED <<wvars, mvars, svars>>

\* a cog_unload that marks the loop stopped and leaves its send in flight
cog_unload_keeps_send(sent) ==
    /\ loop # "cancelled"
    /\ loop' = "cancelled"
    /\ UNCHANGED <<now, reminders, sqlite_sequence, reminders_cache, liveChannels,
                   last_iteration_failed, cache, pos, pending, delivered, dupDelivery,
                   attempted, dupAttempt, skipped, dueAtStart, aborted,
                   author_refused>>
    /\ UNCHANGED bvars
    /\ UNCHANGED <<wvars, mvars, svars>>

\* Events.cog_unload, called when the cog is removed from the bot, after its
\* listeners and commands have been removed: cancel() cancels the task of the
\* loop.  A task suspended in channel.send gets CancelledError at that await:
\* the rest of handle_reminder and of the iteration is not run, whether the
\* message has reached the channel (sent) or not.
cog_unload(sent) ==
    /\ loop # "cancelled"
    /\ loop' = "cancelled"
    /\ aborted' = IF loop = "running"
                  THEN aborted \cup {[guild |-> pending[1].guild, id |-> pending[1].id,
                                       sent |-> sent]}
                  ELSE aborted
    /\ UNCHANGED author_refused
    /\ cache' = <<>>
    /\ pos' = <<0, 0>>
    /\ pending' = <<>>
    /\ UNCHANGED <<now, reminders, sqlite_sequence, reminders_cache, liveChannels,
                   last_iteration_failed, delivered, dupDelivery, attempted, dupAttempt,
                   skipped, dueAtStart>>
    /\ UNCHANGED bvars
    /\ UNCHANGED <<wvars, mvars, svars>>

Next ==
    \/ on_ready
    \/ TickStart
    \/ SendOk
    \/ \E exc \in FailOutcomes : SendRaises(exc)
    \/ \E g \in Guilds, c \in Channels, u \in Authors, m \in Contents,
          t \in TimeStrings, sub \in BOOLEAN, a \in ClockAhead :
            create_reminder_command(g, c, u, m, t, sub, a)
    \/ \E g \in Guilds, id \in 1..MaxCreated, u \in Users, p \in BOOLEAN, c \in BOOLEAN :
          delete_reminder_command(g, id, u, p, c)
    \/ \E g \in Guilds, id \in 1..MaxCreated, u \in Authors : subscribe_reminder_command(g, id, u)
    \/ \E g \in Guilds, id \in 1..MaxCreated, u \in Authors : unsubscribe_reminder_command(g, id, u)
    \/ Advance
    \/ \E c \in Channels : ChannelDelete(c)
    \/ \E sent \in BOOLEAN : cog_unload(sent)

Spec == Init /\ [][Next]_vars

\* The same program with its scheduling: the client fires on_ready, which
\* starts the task; tasks.loop(seconds=20) starts an iteration whenever the
\* previous one has ended; a channel.send that is attempted again and again
\* returns at some point.
FairSpec ==
    /\ Spec
    /\ WF_vars(on_ready)
    /\ WF_vars(TickStart)
    /\ SF_vars(SendOk)

\* --------------------------------------------- actions of the Birthdays cog
\* Birthdays.on_ready: start() launches the task (it raises RuntimeError when
\* the task is still alive)
birthdays_on_ready ==
    /\ bloop \in {"unstarted", "failed"}
    /\ bloop' = "sleeping"
    /\ b_last_iteration_failed' = FALSE
    /\ UNCHANGED <<bclock, last_check, bsettings, birthdays, role_members, bpos,
                   notified, dupNotify, rechecked>>
    /\ UNCHANGED rvars
    /\ UNCHANGED <<wvars, mvars, svars>>

\* the loop goes on from the result of a scan: it is suspended in an await,
\* or the iteration is over
BirthdayProceed(res, check) ==
    /\ bloop' = IF res.done THEN "sleeping" ELSE "running"
    /\ b_last_iteration_failed' = (IF res.done THEN FALSE ELSE b_last_iteration_failed)
    /\ bpos' = IF res.done THEN <<>> ELSE <<res>>
    /\ IF ~res.done /\ res.at = "send"
       THEN /\ notified' = notified \cup {<<GuildOrder[res.gi], check>>}
            /\ dupNotify' = (dupNotify \/ <<GuildOrder[res.gi], check>> \in notified)
       ELSE UNCHANGED <<notified, dupNotify>>

\* One iteration of birthdays_loop starts: in a new bucket it stores the
\* bucket, then checks the guilds up to its first await.
birthdays_loop ==
    /\ bloop = "sleeping"
    /\ IF NewBucket(last_check, bclock)
       THEN /\ last_check' = <<Bucket(bclock)>>
            /\ BirthdayProceed(BirthdayScan(role_members, 1, "guild", 1, <<>>),
                               <<Bucket(bclock)>>)
            /\ rechecked' = FALSE
       ELSE /\ BirthdayProceed(BDone, last_check)
            /\ rechecked' = TRUE
            /\ UNCHANGED last_check
    /\ UNCHANGED <<bclock, bsettings, birthdays, role_members>>
    /\ UNCHANGED rvars
    /\ UNCHANGED <<wvars, mvars, svars>>

\* the await of the loop returned: a role change is made, and the loop goes
\* on from the line after the await
AwaitReturns ==
    /\ bloop = "running"
    /\ LET p == bpos[1]
           guild == GuildOrder[p.gi]
           roles == IF p.at = "remove_roles"
                    THEN [role_members EXCEPT ![guild] = @ \ {p.member[1]}]
                    ELSE IF p.at = "add_roles"
                    THEN [role_members EXCEPT ![guild] = @ \cup {p.member[1]}]
                    ELSE role_members
       IN /\ role_members' = roles
          /\ BirthdayProceed(IF p.at = "send"
                             THEN BirthdayScan(roles, p.gi, "role", 1, p.today)
                             ELSE IF p.at = "remove_roles"
                             THEN BirthdayScan(roles, p.gi, "remove", p.mi + 1, p.today)
                             ELSE BirthdayScan(roles, p.gi, "add", p.mi + 1, p.today),
                             last_check)
    /\ UNCHANGED <<bclock, last_check, bsettings, birthdays, rechecked>>
    /\ UNCHANGED rvars
    /\ UNCHANGED <<wvars, mvars, svars>>

\* the await of the loop raised: nothing in birthdays_loop catches it.
\* tasks.loop retries the iteration after a back-off when the exception is a
\* connection error, and ends the task on any other exception.
AwaitRaises(exc) ==
    /\ bloop = "running"
    /\ exc \in FailOutcomes
    /\ bloop' = IF exc = "ConnectionError" THEN "sleeping" ELSE "failed"
    /\ b_last_iteration_failed' = (exc = "ConnectionError")
    /\ bpos' = <<>>
    /\ UNCHANGED <<bclock, last_check, bsettings, birthdays, role_members,
                   notified, dupNotify, rechecked>>
    /\ UNCHANGED rvars
    /\ UNCHANGED <<wvars, mvars, svars>>

\* /bday set, with a date of the format
set_bday_command(user, date) ==
    /\ bloop # "cancelled"
    /\ birthdays' = set_user_birthday(birthdays, user, date)
    /\ UNCHANGED <<bclock, last_check, bsettings, role_members, bloop,
                   b_last_iteration_failed, bpos, notified, dupNotify, rechecked>>
    /\ UNCHANGED rvars
    /\ UNCHANGED <<wvars, mvars, svars>>

\* /bday remove
remove_bday_command(user) ==
    /\ bloop # "cancelled"
    /\ birthdays' = remove_user_birthday(birthdays, user)
    /\ UNCHANGED <<bclock, last_check, bsettings, role_members, bloop,
                   b_last_iteration_failed, bpos, notified, dupNotify, rechecked>>
    /\ UNCHANGED rvars
    /\ UNCHANGED <<wvars, mvars, svars>>

\* /bday hide, in a guild
hide_bday_command(user, guild, hide) ==
    /\ bloop # "cancelled"
    /\ birthdays' = IF hide THEN add_hidden_guild(birthdays, user, guild).tbl
                    ELSE remove_hidden_guild(birthdays, user, guild).tbl
    /\ UNCHANGED <<bclock, last_check, bsettings, role_members, bloop,
                   b_last_iteration_failed, bpos, notified, dupNotify, rechecked>>
    /\ UNCHANGED rvars
    /\ UNCHANGED <<wvars, mvars, svars>>

\* /config-bday channel: a text channel, or none
channel_settings_command(guild, channel) ==
    /\ bloop # "cancelled"
    /\ channel \in {"0"} \cup (liveChannels \cap GuildChannels[guild])
    /\ bsettings' = [bsettings EXCEPT ![guild].NotificationChannelID = channel]
    /\ UNCHANGED <<bclock, last_check, birthdays, role_members, bloop,
                   b_last_iteration_failed, bpos, notified, dupNotify, rechecked>>
    /\ UNCHANGED rvars
    /\ UNCHANGED <<wvars, mvars, svars>>

\* /config-bday hour
hour_settings_command(guild, hour) ==
    /\ bloop # "cancelled"
    /\ hour \in 0..23
    /\ bsettings' = [bsettings EXCEPT ![guild].NotificationHour = hour]
    /\ UNCHANGED <<bclock, last_check, birthdays, role_members, bloop,
                   b_last_iteration_failed, bpos, notified, dupNotify, rechecked>>
    /\ UNCHANGED rvars
    /\ UNCHANGED <<wvars, mvars, svars>>

\* /config-bday role: a role, or none
role_settings_command(guild, role) ==
    /\ bloop # "cancelled"
    /\ role \in {"0"} \cup RoleIds
    /\ bsettings' = [bsettings EXCEPT ![guild].BirthdayRoleID = role]
    /\ UNCHANGED <<bclock, last_check, birthdays, role_members, bloop,
                   b_last_iteration_failed, bpos, notified, dupNotify, rechecked>>
    /\ UNCHANGED rvars
    /\ UNCHANGED <<wvars, mvars, svars>>

\* an hour goes by
BirthdaysAdvance ==
    /\ bclock < 23 + MaxElapsed
    /\ bclock' = bclock + 1
    /\ UNCHANGED <<last_check, bsettings, birthdays, role_members, bloop,
                   b_last_iteration_failed, bpos, notified, dupNotify, rechecked>>
    /\ UNCHANGED rvars
    /\ UNCHANGED <<wvars, mvars, svars>>

\* Birthdays.cog_unload, called when the cog is removed from the bot, after its
\* listeners and commands have been removed: cancel() cancels the task of the
\* loop, which gets CancelledError at the await it is suspended in.
birthdays_cog_unload ==
    /\ bloop # "cancelled"
    /\ bloop' = "cancelled"
    /\ bpos' = <<>>
    /\ UNCHANGED <<bclock, last_check, bsettings, birthdays, role_members,
                   b_last_iteration_failed, notified, dupNotify, rechecked>>
    /\ UNCHANGED rvars
    /\ UNCHANGED <<wvars, mvars, svars>>

BirthdaysNext ==
    \/ birthdays_on_ready
    \/ birthdays_loop
    \/ AwaitReturns
    \/ \E exc \in FailOutcomes : AwaitRaises(exc)
    \/ \E u \in BirthdayUsers, d \in Dates : set_bday_command(u, d)
    \/ \E u \in BirthdayUsers : remove_bday_command(u)
    \/ \E u \in BirthdayUsers, g \in Guilds, h \in BOOLEAN : hide_bday_command(u, g, h)
    \/ \E g \in Guilds, c \in {"0"} \cup Channels : channel_settings_command(g, c)
    \/ \E g \in Guilds, h \in NotificationHours : hour_settings_command(g, h)
    \/ \E g \in Guilds, r \in {"0"} \cup RoleIds : role_settings_command(g, r)
    \/ BirthdaysAdvance
    \/ birthdays_cog_unload
    \/ \E c \in GuildChannels["g1"] : ChannelDelete(c)

\* the Birthdays cog is followed from the states in which no reminder is stored
BirthdaysStart == Init /\ \A g \in Guilds : reminders[g] = <<>>

BirthdaysSpec == BirthdaysStart /\ [][BirthdaysNext]_vars

\* ----------------------------------------------- actions of the WebUtils cog
\* on_message, up to its reply: a message of a member in a guild where the
\* correction is enabled, with a link that the triggers change
on_message(guild, author_bot, content) ==
    /\ Len(wpending) < MaxInFlight
    /\ ~author_bot
    /\ fix_enabled(wsettings, guild)
    /\ LET r == get_triggers_cache(triggers_cache, link_fixes, guild) IN
        /\ triggers_cache' = r.cache
        /\ IF /\ r.ret # <<>>
              /\ content # <<>>
              /\ ApplyTriggers(r.ret, 1, content) # content
           THEN wpending' = Append(wpending,
                    [guild |-> guild, reply |-> ApplyTriggers(r.ret, 1, content),
                     while_disabled |-> disabled[guild]])
           ELSE UNCHANGED wpending
    /\ UNCHANGED <<wsettings, link_fixes, last_reply, disabled>>
    /\ UNCHANGED <<rvars, bvars, mvars, svars>>

\* message.reply returned: the embed of the message is suppressed and the
\* reply gets the cancel button when the setting asks for it
ReplyPosted ==
    /\ wpending # <<>>
    /\ last_reply' = <<[guild |-> wpending[1].guild, reply |-> wpending[1].reply,
                        while_disabled |-> wpending[1].while_disabled,
                        button |-> get_keyvalue_table_value(wsettings, wpending[1].guild,
                                                            "CancelFixButton") # 0]>>
    /\ wpending' = Tail(wpending)
    /\ UNCHANGED <<wsettings, link_fixes, triggers_cache, disabled>>
    /\ UNCHANGED <<rvars, bvars, mvars, svars>>

\* message.reply raised: the listener ends
ReplyRaises ==
    /\ wpending # <<>>
    /\ wpending' = Tail(wpending)
    /\ UNCHANGED <<wsettings, link_fixes, triggers_cache, last_reply, disabled>>
    /\ UNCHANGED <<rvars, bvars, mvars, svars>>

\* /fixlinks enable
fixlinks_enable(guild, enable) ==
    /\ wsettings' = set_keyvalue_table_value(wsettings, guild, "EnableLinkFix",
                                             IF enable THEN 1 ELSE 0)
    /\ disabled' = [disabled EXCEPT ![guild] = ~enable]
    /\ UNCHANGED <<link_fixes, triggers_cache, wpending, last_reply>>
    /\ UNCHANGED <<rvars, bvars, mvars, svars>>

\* /fixlinks cancelbutton
fixlinks_cancelbutton(guild, enable) ==
    /\ wsettings' = set_keyvalue_table_value(wsettings, guild, "CancelFixButton",
                                             IF enable THEN 1 ELSE 0)
    /\ UNCHANGED <<link_fixes, triggers_cache, wpending, last_reply, disabled>>
    /\ UNCHANGED <<rvars, bvars, mvars, svars>>

\* /fixlinks set: refused at the limit of triggers and for a search that has
\* no domain name
fixlinks_set(guild, search, replace) ==
    /\ LET r == get_triggers_cache(triggers_cache, link_fixes, guild)
           label == get_label_for(search)
       IN IF Len(r.ret) >= MaxTriggers \/ label = <<>>
          THEN /\ triggers_cache' = r.cache
               /\ UNCHANGED link_fixes
          ELSE /\ link_fixes' = set_trigger(link_fixes, guild, label[1], search, replace)
               /\ triggers_cache' = update_triggers_cache(r.cache, link_fixes', guild)
    /\ UNCHANGED <<wsettings, wpending, last_reply, disabled>>
    /\ UNCHANGED <<rvars, bvars, mvars, svars>>

\* /fixlinks remove, of a trigger that exists
fixlinks_remove(guild, label) ==
    /\ get_trigger(link_fixes, guild, label) # <<>>
    /\ link_fixes' = delete_trigger(link_fixes, guild, label)
    /\ triggers_cache' = update_triggers_cache(triggers_cache, link_fixes', guild)
    /\ UNCHANGED <<wsettings, wpending, last_reply, disabled>>
    /\ UNCHANGED <<rvars, bvars, mvars, svars>>

WebUtilsNext ==
    \/ \E g \in Guilds, b \in BOOLEAN, c \in Messages : on_message(g, b, c)
    \/ ReplyPosted
    \/ ReplyRaises
    \/ \E g \in Guilds, e \in BOOLEAN : fixlinks_enable(g, e)
    \/ \E g \in Guilds, e \in BOOLEAN : fixlinks_cancelbutton(g, e)
    \/ \E g \in Guilds, s \in Searches, r \in Replaces : fixlinks_set(g, s, r)
    \/ \E g \in Guilds, l \in {"twitter.com", "x.com"} : fixlinks_remove(g, l)

\* the WebUtils cog is followed from the states in which no reminder is stored
WebUtilsStart == Init /\ \A g \in Guilds : reminders[g] = <<>>

WebUtilsSpec == WebUtilsStart /\ [][WebUtilsNext]_vars

\* ----------------------------------------------- actions of the MsgBoard cog
\* A member adds a reaction to the message.  on_raw_reaction_add runs up to
\* its fetch_message: it returns when the bot cannot read the history of the
\* channel, when the guild has no webhook and when the emoji is not the vote
\* emoji.
on_raw_reaction_add(guild, vote_emoji, read_message_history) ==
    /\ Len(handlers) < MaxHandlers
    /\ reposts[guild] < MaxReposts
    /\ IF vote_emoji
       THEN /\ votes[guild] < MaxVotes
            /\ votes' = [votes EXCEPT ![guild] = @ + 1]
       ELSE UNCHANGED votes
    /\ handlers' =
         IF /\ read_message_history
            /\ get_keyvalue_table_value(msettings, guild, "Webhook_URL") # ""
            /\ vote_emoji
         THEN Append(handlers, [guild |-> guild, pos |-> "fetch", votes_count |-> 0,
                                threshold |-> 0, while_disabled |-> mdisabled[guild]])
         ELSE handlers
    /\ UNCHANGED <<msettings, board_history, reposts, board_log, mdisabled>>
    /\ UNCHANGED mrefused
    /\ UNCHANGED <<rvars, bvars, wvars, svars>>

\* A member removes a vote reaction (the cog has no listener for it).
ReactionRemoved(guild) ==
    /\ votes[guild] > 0
    /\ votes' = [votes EXCEPT ![guild] = @ - 1]
    /\ UNCHANGED <<msettings, board_history, handlers, reposts, board_log, mdisabled>>
    /\ UNCHANGED mrefused
    /\ UNCHANGED <<rvars, bvars, wvars, svars>>

\* fetch_message returned: the listener reads the count of votes and the
\* settings, and goes on to the half-threshold notification or to the test of
\* the threshold.
MessageFetched(i, manage_messages) ==
    /\ i \in 1..Len(handlers)
    /\ handlers[i].pos = "fetch"
    /\ LET g == handlers[i].guild
           threshold == get_keyvalue_table_value(msettings, g, "Threshold")
           notif == get_keyvalue_table_value(msettings, g, "NotifyHalfThreshold") # 0
           h == [handlers[i] EXCEPT !.votes_count = votes[g], !.threshold = threshold]
       IN handlers' =
            IF votes[g] = 0 THEN Resume(handlers, i, <<>>)
            ELSE IF /\ notif
                    /\ votes[g] = (threshold \div 2) + 1
                    /\ history_notification_id(board_history, g) = 0
                    /\ manage_messages
                 THEN Resume(handlers, i, <<[h EXCEPT !.pos = "half_reply"]>>)
                 ELSE Resume(handlers, i,
                             threshold_check(h, board_history, msettings, manage_messages))
    /\ UNCHANGED <<msettings, board_history, votes, reposts, board_log, mdisabled>>
    /\ UNCHANGED mrefused
    /\ UNCHANGED <<rvars, bvars, wvars, svars>>

\* send_half_threshold_notification: message.reply returned, the id of the
\* notification is stored and the coroutine sleeps 120 seconds
HalfReplied(i) ==
    /\ i \in 1..Len(handlers)
    /\ handlers[i].pos = "half_reply"
    /\ board_history' = set_message_history(board_history, handlers[i].guild, FALSE, 1)
    /\ board_log' = board_log \cup {[guild |-> handlers[i].guild, kind |-> "half",
                                     while_disabled |-> handlers[i].while_disabled]}
    /\ handlers' = Resume(handlers, i, <<[handlers[i] EXCEPT !.pos = "half_sleep"]>>)
    /\ UNCHANGED <<msettings, votes, reposts, mdisabled>>
    /\ UNCHANGED mrefused
    /\ UNCHANGED <<rvars, bvars, wvars, svars>>

\* send_half_threshold_notification is over (the notification is deleted):
\* the listener tests the threshold with the count it read
HalfDone(i, manage_messages) ==
    /\ i \in 1..Len(handlers)
    /\ handlers[i].pos = "half_sleep"
    /\ handlers' = Resume(handlers, i,
                          threshold_check(handlers[i], board_history, msettings,
                                          manage_messages))
    /\ UNCHANGED <<msettings, board_history, votes, reposts, board_log, mdisabled>>
    /\ UNCHANGED mrefused
    /\ UNCHANGED <<rvars, bvars, wvars, svars>>

\* send_threshold_notification: message.reply returned, the message is
\* recorded as reposted; then repost_message runs up to its webhook.send
ThresholdReplied(i) ==
    /\ i \in 1..Len(handlers)
    /\ handlers[i].pos = "threshold_reply"
    /\ board_history' = set_message_history(board_history, handlers[i].guild, TRUE, 0)
    /\ board_log' = board_log \cup {[guild |-> handlers[i].guild, kind |-> "threshold",
                                     while_disabled |-> handlers[i].while_disabled]}
    /\ handlers' = Resume(handlers, i, repost_message(handlers[i], msettings))
    /\ UNCHANGED <<msettings, votes, reposts, mdisabled>>
    /\ UNCHANGED mrefused
    /\ UNCHANGED <<rvars, bvars, wvars, svars>>

\* webhook.send returned: the message is on the board
WebhookSent(i) ==
    /\ i \in 1..Len(handlers)
    /\ handlers[i].pos = "webhook_send"
    /\ reposts' = [reposts EXCEPT ![handlers[i].guild] = @ + 1]
    /\ board_log' = board_log \cup {[guild |-> handlers[i].guild, kind |-> "repost",
                                     while_disabled |-> handlers[i].while_disabled]}
    /\ handlers' = Resume(handlers, i, <<>>)
    /\ UNCHANGED <<msettings, board_history, votes, mdisabled>>
    /\ UNCHANGED mrefused
    /\ UNCHANGED <<rvars, bvars, wvars, svars>>

\* the await the listener is suspended in raised: the listener ends
HandlerRaises(i) ==
    /\ i \in 1..Len(handlers)
    /\ handlers' = Resume(handlers, i, <<>>)
    /\ UNCHANGED <<msettings, board_history, votes, reposts, board_log, mdisabled>>
    /\ UNCHANGED mrefused
    /\ UNCHANGED <<rvars, bvars, wvars, svars>>

\* /msgboard enable
enable_msgboard(guild, enable) ==
    /\ msettings' = set_keyvalue_table_value(msettings, guild, "Enabled",
                                             IF enable THEN 1 ELSE 0)
    /\ mdisabled' = [mdisabled EXCEPT ![guild] = ~enable]
    /\ UNCHANGED <<board_history, votes, handlers, reposts, board_log>>
    /\ UNCHANGED mrefused
    /\ UNCHANGED <<rvars, bvars, wvars, svars>>

\* /msgboard channel, on an enabled board: the webhook of the channel is
\* created and its URL stored, unless the bot may not create it
set_msgboard_channel(guild, forbidden) ==
    /\ get_keyvalue_table_value(msettings, guild, "Enabled") # 0
    /\ msettings' =
         IF get_keyvalue_table_value(msettings, guild, "Webhook_URL") = "" /\ forbidden
         THEN msettings
         ELSE set_keyvalue_table_value(msettings, guild, "Webhook_URL", "w")
    /\ UNCHANGED <<board_history, votes, handlers, reposts, board_log, mdisabled>>
    /\ UNCHANGED mrefused
    /\ UNCHANGED <<rvars, bvars, wvars, svars>>

\* a /msgboard threshold that accepts every threshold
set_msgboard_threshold_unchecked(guild, threshold, half_notification) ==
    /\ get_keyvalue_table_value(msettings, guild, "Enabled") # 0
    /\ msettings' = set_keyvalue_table_value(
                        set_keyvalue_table_value(msettings, guild, "Threshold", threshold),
                        guild, "NotifyHalfThreshold", IF half_notification THEN 1 ELSE 0)
    /\ UNCHANGED <<board_history, votes, handlers, reposts, board_log, mdisabled>>
    /\ UNCHANGED mrefused
    /\ UNCHANGED <<rvars, bvars, wvars, svars>>

\* /msgboard threshold: refused on a disabled board, and with the half
\* notification for a threshold under 3
set_msgboard_threshold(guild, threshold, half_notification) ==
    /\ IF get_keyvalue_table_value(msettings, guild, "Enabled") = 0
       THEN UNCHANGED <<msettings, mrefused>>
       ELSE IF half_notification /\ threshold < 3
       THEN /\ UNCHANGED msettings
            /\ mrefused' = TRUE
       ELSE /\ msettings' = set_keyvalue_table_value(
                    set_keyvalue_table_value(msettings, guild, "Threshold", threshold),
                    guild, "NotifyHalfThreshold", IF half_notification THEN 1 ELSE 0)
            /\ UNCHANGED mrefused
    /\ UNCHANGED <<board_history, votes, handlers, reposts, board_log, mdisabled>>
    /\ UNCHANGED <<rvars, bvars, wvars, svars>>

MsgBoardNext ==
    \/ \E g \in BoardGuilds, e \in BOOLEAN, r \in BOOLEAN : on_raw_reaction_add(g, e, r)
    \/ \E g \in BoardGuilds : ReactionRemoved(g)
    \/ \E i \in 1..MaxHandlers, p \in BOOLEAN : MessageFetched(i, p)
    \/ \E i \in 1..MaxHandlers : HalfReplied(i)
    \/ \E i \in 1..MaxHandlers, p \in BOOLEAN : HalfDone(i, p)
    \/ \E i \in 1..MaxHandlers : ThresholdReplied(i)
    \/ \E i \in 1..MaxHandlers : WebhookSent(i)
    \/ \E i \in 1..MaxHandlers : HandlerRaises(i)
    \/ \E g \in BoardGuilds, e \in BOOLEAN : enable_msgboard(g, e)
    \/ \E g \in BoardGuilds, f \in BOOLEAN : set_msgboard_channel(g, f)
    \/ \E g \in BoardGuilds, t \in Thresholds, h \in BOOLEAN : set_msgboard_threshold(g, t, h)

\* the MsgBoard cog is followed from the states in which no reminder is stored
MsgBoardStart == Init /\ \A g \in Guilds : reminders[g] = <<>>

MsgBoardSpec == MsgBoardStart /\ [][MsgBoardNext]_vars

\* ------------------------------------------------ actions of the Secrets cog
\* the clock goes on to a later instant
SecretsAdvance(t) ==
    /\ t \in Instants
    /\ t > sclock
    /\ sclock' = t
    /\ UNCHANGED <<tracking, blacklist, cooldowns, modals, sdelivered>>
    /\ UNCHANGED <<rvars, bvars, wvars, mvars>>

\* send_anonymous_message (context menu): the modal is opened unless the
\* target is the author, the author lacks the restricting role, the target
\* has blocked the author, or the pair is in its cooldown
send_anonymous_message(author, user, restricted) ==
    /\ Len(modals) < MaxModals
    /\ Len(sdelivered) + Len(modals) < MaxSecrets
    /\ modals' =
         IF \/ user = author
            \/ restricted
            \/ author \in get_blacklist(blacklist, user)
            \/ in_cooldown(cooldowns, author, user, sclock)
         THEN modals
         ELSE Append(modals, [sender |-> author, receiver |-> user, opened |-> sclock,
                              pos |-> "open", blocked |-> FALSE, message_id |-> 0])
    /\ UNCHANGED <<sclock, tracking, blacklist, cooldowns, sdelivered>>
    /\ UNCHANGED <<rvars, bvars, wvars, mvars>>

\* the modal was left open for its timeout: it takes no submission any more
ModalTimesOut(i) ==
    /\ i \in 1..Len(modals)
    /\ modals[i].pos = "open"
    /\ sclock >= modals[i].opened + MODAL_TIMEOUT
    /\ modals' = ModalResume(modals, i, <<>>)
    /\ UNCHANGED <<sclock, tracking, blacklist, cooldowns, sdelivered>>
    /\ UNCHANGED <<rvars, bvars, wvars, mvars>>

\* SendModal.on_submit, up to its receiver.send: a signature that is the name
\* of a user is refused
on_submit(i, signature_taken) ==
    /\ i \in 1..Len(modals)
    /\ modals[i].pos = "open"
    /\ sclock < modals[i].opened + MODAL_TIMEOUT
    /\ modals' =
         IF signature_taken THEN ModalResume(modals, i, <<>>)
         ELSE ModalResume(modals, i,
                <<[modals[i] EXCEPT
                     !.pos = "send",
                     !.blocked = modals[i].sender \in get_blacklist(blacklist, modals[i].receiver)]>>)
    /\ UNCHANGED <<sclock, tracking, blacklist, cooldowns, sdelivered>>
    /\ UNCHANGED <<rvars, bvars, wvars, mvars>>

\* receiver.send returned: the message is delivered, and on_submit answers
\* the interaction
ReceiverSent(i) ==
    /\ i \in 1..Len(modals)
    /\ modals[i].pos = "send"
    /\ sdelivered' = Append(sdelivered,
                            [message_id |-> Len(sdelivered) + 1,
                             sender |-> modals[i].sender, receiver |-> modals[i].receiver,
                             at |-> sclock, blocked |-> modals[i].blocked])
    /\ modals' = ModalResume(modals, i,
                   <<[modals[i] EXCEPT !.pos = "respond",
                                       !.message_id = Len(sdelivered) + 1]>>)
    /\ UNCHANGED <<sclock, tracking, blacklist, cooldowns>>
    /\ UNCHANGED <<rvars, bvars, wvars, mvars>>

\* receiver.send raised (discord.Forbidden is answered with an error, any
\* other exception ends on_submit): nothing is delivered
ReceiverSendRaises(i) ==
    /\ i \in 1..Len(modals)
    /\ modals[i].pos = "send"
    /\ modals' = ModalResume(modals, i, <<>>)
    /\ UNCHANGED <<sclock, tracking, blacklist, cooldowns, sdelivered>>
    /\ UNCHANGED <<rvars, bvars, wvars, mvars>>

\* interaction.response.send_message returned: the message is tracked and
\* the cooldown of the pair is set
ResponseSent(i) ==
    /\ i \in 1..Len(modals)
    /\ modals[i].pos = "respond"
    /\ tracking' = add_tracking(tracking, modals[i].message_id, modals[i].sender)
    /\ cooldowns' = DictSet(cooldowns, <<modals[i].sender, modals[i].receiver>>,
                            sclock + COOLDOWN_DELAY)
    /\ modals' = ModalResume(modals, i, <<>>)
    /\ UNCHANGED <<sclock, blacklist, sdelivered>>
    /\ UNCHANGED <<rvars, bvars, wvars, mvars>>

\* interaction.response.send_message raised: on_submit ends before
\* add_tracking
ResponseRaises(i) ==
    /\ i \in 1..Len(modals)
    /\ modals[i].pos = "respond"
    /\ modals' = ModalResume(modals, i, <<>>)
    /\ UNCHANGED <<sclock, tracking, blacklist, cooldowns, sdelivered>>
    /\ UNCHANGED <<rvars, bvars, wvars, mvars>>

\* /secrets block: the sender of the tracked message joins the blacklist of
\* the user of the command
block_user(owner, message_id) ==
    /\ LET sender_id == get_tracking(tracking, message_id) IN
         blacklist' =
           IF sender_id # <<>> /\ sender_id[1] \notin get_blacklist(blacklist, owner)
           THEN add_blacklist(blacklist, owner, sender_id[1])
           ELSE blacklist
    /\ UNCHANGED <<sclock, tracking, cooldowns, modals, sdelivered>>
    /\ UNCHANGED <<rvars, bvars, wvars, mvars>>

\* /secrets unblock
unblock_user(owner, message_id) ==
    /\ LET sender_id == get_tracking(tracking, message_id) IN
         blacklist' =
           IF sender_id # <<>> /\ sender_id[1] \in get_blacklist(blacklist, owner)
           THEN remove_blacklist(blacklist, owner, sender_id[1])
           ELSE blacklist
    /\ UNCHANGED <<sclock, tracking, cooldowns, modals, sdelivered>>
    /\ UNCHANGED <<rvars, bvars, wvars, mvars>>

SecretsNext ==
    \/ \E t \in Instants : SecretsAdvance(t)
    \/ \E a \in Senders, u \in Users, r \in BOOLEAN : send_anonymous_message(a, u, r)
    \/ \E i \in 1..MaxModals : ModalTimesOut(i)
    \/ \E i \in 1..MaxModals, s \in BOOLEAN : on_submit(i, s)
    \/ \E i \in 1..MaxModals : ReceiverSent(i)
    \/ \E i \in 1..MaxModals : ReceiverSendRaises(i)
    \/ \E i \in 1..MaxModals : ResponseSent(i)
    \/ \E i \in 1..MaxModals : ResponseRaises(i)
    \/ \E o \in Users, m \in 1..MaxSecrets : block_user(o, m)
    \/ \E o \in Users, m \in 1..MaxSecrets : unblock_user(o, m)

\* the Secrets cog is followed from the states in which no reminder is stored
SecretsStart == Init /\ \A g \in Guilds : reminders[g] = <<>>

SecretsSpec == SecretsStart /\ [][SecretsNext]_vars

\* ------------------------------------------------------------------ claims
Key(m) == <<m.guild, m.id>>

InStore(k) == k[2] \in Ids(reminders[k[1]])

InCache(k) == /\ DictHas(reminders_cache, k[1])
              /\ k[2] \in Ids(DictGet(reminders_cache, k[1]))

\* a step of the scanner (of the reminders_loop task)
ScannerStep == TickStart \/ SendOk \/ \E exc \in FailOutcomes : SendRaises(exc)

SendFails == \E exc \in FailOutcomes : SendRaises(exc)

\* a step of the birthdays_loop task
BirthdayLoopStep == birthdays_loop \/ AwaitReturns \/ \E exc \in FailOutcomes : AwaitRaises(exc)

\* C1: over any run of ticks and reminder commands, no reminder (guild, id)
\* has its notification sent a second time.
C1_DeliveredAtMostOnce == ~dupDelivery

\* a tick is dispatching a reminder while another one was delivered by an
\* earlier tick
C1_Witness ==
    /\ loop = "running"
    /\ delivered # {}
    /\ attempted \cap delivered = {}

C3_FailureIsolation ==
    [][(SendFails /\ ~Scan(cache, reminders, pos[1], pos[2] + 1, skipped).done)
          => (loop' = "running" /\ pending' # <<>>)]_vars

\* C4: a failed send never stops the scanner: once started, the loop is in
\* an iteration or its next iteration can start.
C4_LoopSurvives ==
    loop \notin {"unstarted", "cancelled"} => (loop = "running" \/ ENABLED TickStart)

\* C5: no exception leaves handle_reminder: no iteration of reminders_loop is
\* ended by an exception.
C5_NoExceptionPropagates == loop # "failed" /\ ~last_iteration_failed

\* C6: a failed send leaves the reminder as it is in store and cache, ends the
\* attempts of this tick for it, and the next tick will run and try again.
C6_RetriedNextTick ==
    [][SendFails =>
          /\ reminders' = reminders
          /\ reminders_cache' = reminders_cache
          /\ loop' = "sleeping"
          /\ InStore(Key(pending[1])) => Key(pending[1]) \in DueIn(reminders_cache')]_vars

\* C8: the cache of every guild that has one equals the guild's table, and a
\* step that changes a guild's table leaves the guild's cache equal to it.
C8_MirrorConsistency ==
    /\ [](\A i \in 1..Len(reminders_cache) :
             reminders_cache[i].v = reminders[reminders_cache[i].k])
    /\ [][\A g \in Guilds :
             reminders'[g] # reminders[g] =>
                 /\ DictHas(reminders_cache', g)
                 /\ DictGet(reminders_cache', g) = reminders'[g]]_vars

\* a reminder created before on_ready ever refreshed the caches is in the cache
C8_Witness ==
    /\ loop = "unstarted"
    /\ \E g \in Guilds : /\ reminders[g] # <<>>
                         /\ DictHas(reminders_cache, g)
                         /\ DictGet(reminders_cache, g) = reminders[g]

\* C9: a send is only ever pending for a reminder whose timestamp is not
\* after the clock, and a tick that finds no due reminder in the cache ends
\* at once with no send and with store and cache unchanged.
C9_OnlyDueDispatched ==
    /\ [](loop = "running" => cache[pos[1]].v[pos[2]].timestamp <= now)
    /\ [][(TickStart /\ DueIn(reminders_cache) = {}) =>
             /\ loop' = "sleeping"
             /\ pending' = <<>>
             /\ attempted' = {}
             /\ reminders' = reminders
             /\ reminders_cache' = reminders_cache]_vars

\* a tick passed over a reminder that is not due yet and dispatches a later one
C9_Witness ==
    /\ loop = "running"
    /\ \E j \in 1..Len(cache[pos[1]].v) :
          /\ j < pos[2]
          /\ cache[pos[1]].v[j].timestamp > now
          /\ InStore(<<cache[pos[1]].k, cache[pos[1]].v[j].id>>)

\* C10: the scanner deletes a reminder only in the step in which its send
\* returned, and that step leaves the cache of the guild refreshed from the
\* table after the deletion.
C10_SendDeleteRefresh ==
    [][ScannerStep =>
          \A g \in Guilds : \A id \in Ids(reminders[g]) \ Ids(reminders'[g]) :
              /\ pending # <<>>
              /\ Key(pending[1]) = <<g, id>>
              /\ <<g, id>> \in delivered'
              /\ DictHas(reminders_cache', g)
              /\ DictGet(reminders_cache', g) = reminders'[g]]_vars

\* a delivered reminder is gone while another reminder of its guild is kept
C10_Witness ==
    \E k \in delivered :
        /\ ~InStore(k)
        /\ reminders[k[1]] # <<>>
        /\ DictGet(reminders_cache, k[1]) = reminders[k[1]]

\* C7: two ticks of birthdays_loop that fall in the same bucket '%d/%m:%H'
\* never both send the birthday notification of a guild: no guild is notified
\* twice for one bucket, and a tick that finds in last_check the bucket of the
\* clock sends nothing and suspends in nothing.
C7_RecurringDedup ==
    /\ []~dupNotify
    /\ [][(birthdays_loop /\ last_check = <<Bucket(bclock)>>)
            => (notified' = notified /\ bpos' = <<>> /\ bloop' = "sleeping")]_vars

\* notification hour 0: g1 was notified in hour 0 of a day, and a later tick
\* fell in the same hour of that day
C7_Witness ==
    /\ rechecked
    /\ Hour(bclock) = 0
    /\ last_check = <<Bucket(bclock)>>
    /\ bsettings["g1"].NotificationHour = 0
    /\ <<"g1", last_check>> \in notified

\* C11: the notification is dispatched before last_check takes the bucket: a
\* tick that suspends in the send of a notification has not stored its
\* bucket in last_check yet.
C11_DispatchBeforeLastCheck ==
    [][(birthdays_loop /\ bpos' # <<>> /\ bpos'[1].at = "send")
        => last_check' = last_check]_vars

C13_CooperativeCancel ==
    /\ [](\A a \in aborted : ~(a.sent /\ InStore(<<a.guild, a.id>>)))
    /\ [][((\E sent \in BOOLEAN : cog_unload(sent)) /\ loop = "running")
            => aborted' = aborted]_vars

C15_CacheReadyAtStart ==
    /\ [][on_ready => \A g \in Guilds : /\ DictHas(reminders_cache', g)
                                        /\ DictGet(reminders_cache', g) = reminders'[g]]_vars
    /\ [][TickStart => /\ \A g \in Guilds : /\ DictHas(reminders_cache, g)
                                            /\ DictGet(reminders_cache, g) = reminders[g]
                       /\ dueAtStart' = {k \in Guilds \X (1..MaxCreated) :
                                            /\ InStore(k)
                                            /\ is_due(get_reminder(reminders, k[1], k[2])[1])}]_vars

\* on_ready has run, no tick has started yet, and the cache holds a stored
\* reminder that is due
C15_Witness ==
    /\ loop = "sleeping"
    /\ dueAtStart = {} /\ attempted = {} /\ delivered = {} /\ aborted = {}
    /\ \E k \in DueIn(reminders_cache) : InStore(k)

\* C16: within one tick the due reminders of a guild are dispatched in the
\* order of the store, by ascending id: the cached list of a guild is in
\* ascending id, and a reminder a tick goes on to has a greater id than those
\* of its guild the tick has dispatched before.
C16_InsertionOrder ==
    /\ [](\A i \in 1..Len(reminders_cache) :
            \A m, n \in 1..Len(reminders_cache[i].v) :
                m < n => reminders_cache[i].v[m].id < reminders_cache[i].v[n].id)
    /\ [][(SendOk /\ pending' # <<>>)
            => \A k \in attempted : k[1] = pending'[1].guild => k[2] < pending'[1].id]_vars

\* a tick has dispatched two reminders of one guild
C16_Witness ==
    /\ loop = "running"
    /\ \E k \in attempted : k[1] = pending[1].guild /\ k[2] < pending[1].id

\* C17: get_reminders_cache answers the cached list of the guild, and an
\* empty list for a guild that has no cache entry; the call /remindme create
\* makes of it answers the guild's reminders, the new one last.
C17_GetRemindersCache ==
    /\ [](\A g \in Guilds :
            get_reminders_cache(Cur, g).ret
                = IF DictHas(reminders_cache, g) THEN DictGet(reminders_cache, g) ELSE <<>>)
    /\ [][\A g \in Guilds :
            Len(reminders'[g]) > Len(reminders[g])
                => LET data == get_reminders_cache(Cur, g).ret' IN
                      /\ data = reminders'[g]
                      /\ data[Len(data)].id = sqlite_sequence'[g]]_vars

\* /remindme create has been run in g1 while g2 has no cache entry
C17_Witness ==
    /\ DictHas(reminders_cache, "g1")
    /\ get_reminders_cache(Cur, "g1").ret = reminders["g1"]
    /\ reminders["g1"] # <<>>
    /\ sqlite_sequence["g1"] = MaxCreated
    /\ ~DictHas(reminders_cache, "g2")
    /\ get_reminders_cache(Cur, "g2").ret = <<>>

\* the notification channel of the guild is not set, or its id resolves to no
\* text channel of the guild
NoChannel(guild) ==
    bsettings[guild].NotificationChannelID \notin liveChannels \cap GuildChannels[guild]

\* C18: a guild that has birthdays today and no notification channel (no id
\* set, or an id that resolves to no text channel of the guild) is passed
\* without a message and without an error: no send is ever started for a
\* guild whose channel does not resolve, the check goes on for such a guild
\* as from the line after the send, and when g1 is such a guild (and it is
\* not its hour for the roles) the tick goes on to the notification of g2.
C18_ConfigErrorSkipped ==
    /\ [](\A i \in 1..Len(GuildOrder) :
            (get_birthdays_today(GuildOrder[i]) # <<>> /\ NoChannel(GuildOrder[i]))
                => BirthdayScan(role_members, i, "guild", 1, <<>>)
                     = BirthdayScan(role_members, i, "role", 1, get_birthdays_today(GuildOrder[i])))
    /\ [][(BirthdayLoopStep /\ bpos' # <<>> /\ bpos' # bpos /\ bpos'[1].at = "send")
            => ~NoChannel(GuildOrder[bpos'[1].gi])]_vars
    /\ [][(/\ birthdays_loop
           /\ NewBucket(last_check, bclock)
           /\ get_birthdays_today("g1") # <<>>
           /\ NoChannel("g1")
           /\ ~is_role_attribution_hour("g1")
           /\ get_birthdays_today("g2") # <<>>
           /\ ~NoChannel("g2")
           /\ is_notification_hour("g2"))
            => /\ bloop' = "running"
               /\ ~b_last_iteration_failed'
               /\ bpos'[1].gi = 2
               /\ bpos'[1].at = "send"
               /\ <<"g1", last_check'>> \notin notified']_vars

\* a check has passed g1, which has a birthday today and whose channel id
\* resolves no more, and is sending the notification of g2
C18_Witness ==
    /\ bloop = "running"
    /\ bpos[1].gi = 2
    /\ bpos[1].at = "send"
    /\ last_check = <<Bucket(bclock)>>
    /\ get_birthdays_today("g1") # <<>>
    /\ bsettings["g1"].NotificationChannelID = "c1"
    /\ NoChannel("g1")
    /\ <<"g1", last_check>> \notin notified

\* C19: /remindme create with a time string that none of the formats parses
\* creates no reminder: the tables and the cache are left as they are.
C19_InvalidDateRejected ==
    [][(\E g \in Guilds, c \in Channels, u \in Authors, m \in Contents,
           sub \in BOOLEAN, a \in ClockAhead :
             create_reminder_command(g, c, u, m, <<>>, sub, a))
        => (reminders' = reminders /\ reminders_cache' = reminders_cache)]_vars

\* C20: after /fixlinks enable with enable=False in a guild, and until it is
\* run with enable=True, on_message posts no corrected-link reply in that
\* guild.
C20_DisabledNoReply ==
    /\ \A i \in 1..Len(wpending) : ~wpending[i].while_disabled
    /\ last_reply # <<>> => ~last_reply[1].while_disabled

\* C21: after /msgboard enable with enable=False in a guild, and until it is
\* run with enable=True, no reaction added in that guild leads to a repost
\* of the message or to a threshold notification.
C21_DisabledNoRepost == \A e \in board_log : ~e.while_disabled

\* C26: in every reachable settings state of a guild NotifyHalfThreshold = 1
\* implies Threshold >= 3, so that the count of the half-threshold
\* notification (Threshold // 2 + 1) is below the threshold; and
\* /msgboard threshold with the half notification and a threshold under 3
\* changes no setting.
HalfNotificationBelowThreshold(guild) ==
    msettings[guild].NotifyHalfThreshold = <<1>> =>
        /\ msettings[guild].Threshold[1] >= 3
        /\ (msettings[guild].Threshold[1] \div 2) + 1 < msettings[guild].Threshold[1]

C26_HalfThresholdConsistent ==
    /\ [](\A g \in Guilds : HalfNotificationBelowThreshold(g))
    /\ [][\A g \in BoardGuilds, t \in Thresholds :
            (t < 3 /\ set_msgboard_threshold(g, t, TRUE)) => UNCHANGED msettings]_vars

\* the half notification is set on an enabled board, and the command has
\* refused a threshold under 3
C26_Witness ==
    /\ msettings["g1"].NotifyHalfThreshold = <<1>>
    /\ msettings["g1"].Enabled = <<1>>
    /\ mrefused

\* C28: the message of a guild is sent to the board webhook at most once,
\* whatever the reactions added and removed, the listeners that run at the
\* same time and the permissions of the bot in the channel.
C28_RepostedAtMostOnce == \A g \in Guilds : reposts[g] <= 1

\* C22: once a member has hidden their birthday in a guild, /bday set leaves
\* it hidden there: the guild stays in the member's hidden-guild list, so the
\* member stays out of get_birthdays_today of the guild.
C22_SetKeepsHidden ==
    [][\A u \in BirthdayUsers, g \in Guilds :
         (/\ InList(get_hidden_guilds(birthdays, u), g)
          /\ \E d \in Dates : set_bday_command(u, d))
         => InList(get_hidden_guilds(birthdays', u), g)]_vars

\* the member has a birthday today (the day of the system clock, as
\* get_birthdays_today reads it) that is not hidden in the guild
HasBirthdayToday(member, guild) ==
    /\ birthdays[member] # <<>>
    /\ birthdays[member][1].birthday = Day(bclock)
    /\ ~InList(birthdays[member][1].guilds_hidden, guild)

\* C23: a birthday check that runs while the local hour of a guild is 0
\* gives the birthday role of the guild to every member whose birthday is
\* today and who lacks it, whatever the notification channel and hour: a
\* check that ends without an await leaves no such member without the role.
C23_RoleAtMidnight ==
    [][(birthdays_loop /\ NewBucket(last_check, bclock) /\ bloop' = "sleeping")
        => \A g \in Guilds :
             (is_role_attribution_hour(g) /\ get_birthday_role(g) # <<>>)
                => \A i \in 1..Len(Members[g]) :
                     HasBirthdayToday(Members[g][i], g) => Members[g][i] \in role_members'[g]]_vars

\* C29: after a birthday check that runs while the local hour of a guild is
\* 0, in a guild with a birthday role, no member whose birthday is not today
\* holds the role, also on a day without any birthday in the guild: a check
\* that ends without an await leaves no such holder.
C29_RoleRemovedAtMidnight ==
    [][(birthdays_loop /\ NewBucket(last_check, bclock) /\ bloop' = "sleeping")
        => \A g \in Guilds :
             (is_role_attribution_hour(g) /\ get_birthday_role(g) # <<>>)
                => \A i \in 1..Len(Members[g]) :
                     Members[g][i] \in role_members'[g] => HasBirthdayToday(Members[g][i], g)]_vars

\* C24: once the receiver has blocked the sender, and until the receiver
\* unblocks them, no anonymous message of the sender is delivered to the
\* receiver: no delivered message was submitted while its sender was in the
\* blacklist of its receiver.
C24_BlockedNeverDelivered ==
    \A i \in 1..Len(sdelivered) : ~sdelivered[i].blocked

\* C25: two anonymous messages of one sender delivered to one receiver are at
\* least COOLDOWN_DELAY apart.
C25_PairCooldown ==
    \A i, j \in 1..Len(sdelivered) :
        (/\ i < j
         /\ sdelivered[i].sender = sdelivered[j].sender
         /\ sdelivered[i].receiver = sdelivered[j].receiver)
        => sdelivered[j].at >= sdelivered[i].at + COOLDOWN_DELAY

\* the number of times the user is in the userlist
Occurrences(userlist, user_id) ==
    Cardinality({i \in 1..Len(userlist) : userlist[i] = user_id})

\* C27: add_reminder_user answers True exactly when the reminder exists and
\* the user is not in its userlist; then the user is in the userlist once,
\* the other rows are as before and the cache of the guild is the table;
\* when it answers False the tables and the caches are as before.  No
\* userlist of a stored reminder holds a user twice.
C27_AddReminderUser ==
    /\ \A g \in Guilds, id \in 1..MaxCreated, u \in Users :
         LET rows == reminders[g]
             r == add_reminder_user(Cur, g, id, u)
             exists == \E i \in 1..Len(rows) : rows[i].id = id
             subscribed == \E i \in 1..Len(rows) :
                              rows[i].id = id /\ Occurrences(rows[i].userlist, u) > 0
         IN /\ r.ret = (exists /\ ~subscribed)
            /\ r.ret =>
                 /\ Len(r.S.db[g]) = Len(rows)
                 /\ \A i \in 1..Len(rows) :
                      IF rows[i].id = id
                      THEN /\ Occurrences(r.S.db[g][i].userlist, u) = 1
                           /\ \A v \in Users \ {u} :
                                Occurrences(r.S.db[g][i].userlist, v)
                                  = Occurrences(rows[i].userlist, v)
                           /\ [r.S.db[g][i] EXCEPT !.userlist = rows[i].userlist] = rows[i]
                      ELSE r.S.db[g][i] = rows[i]
                 /\ \A h \in Guilds \ {g} : r.S.db[h] = reminders[h]
                 /\ DictHas(r.S.cache, g) /\ DictGet(r.S.cache, g) = r.S.db[g]
            /\ ~r.ret => r.S = Cur
    /\ \A g \in Guilds : \A i \in 1..Len(reminders[g]) : \A u \in Users :
         Occurrences(reminders[g][i].userlist, u) <= 1

\* a reminder of g1 has its author as a subscriber (a new subscription of the
\* author is refused) while another user can still be added
C27_Witness ==
    \E i \in 1..Len(reminders["g1"]) :
        /\ reminders["g1"][i].userlist = <<"u1">>
        /\ ~add_reminder_user(Cur, "g1", reminders["g1"][i].id, "u1").ret
        /\ add_reminder_user(Cur, "g1", reminders["g1"][i].id, "u2").ret

\* the reminder id of the guild is stored and its timestamp has passed
DueInStore(guild, id) ==
    \E i \in 1..Len(reminders[guild]) :
        /\ reminders[guild][i].id = id
        /\ reminders[guild][i].timestamp <= now

Deleted(guild, id) == ~InStore(<<guild, id>>) /\ ~InCache(<<guild, id>>)

\* C30: while reminders_loop keeps ticking (the cog is not unloaded), every
\* stored reminder whose timestamp has passed is eventually deleted from the
\* store and from the cache, whatever became of its channel.
C30_DueEventuallyDeleted ==
    \A g \in Guilds, id \in 1..MaxCreated :
        DueInStore(g, id) ~> (Deleted(g, id) \/ loop = "cancelled")

\* the user is the author of the stored reminder id of the guild
IsAuthor(guild, id, user) ==
    \E i \in 1..Len(reminders[guild]) :
        /\ reminders[guild][i].id = id
        /\ reminders[guild][i].author_id = user

\* C31: /remindme delete, invoked by the author of a stored reminder and
\* confirmed, deletes the reminder from the table and the cache whatever the
\* author's guild permissions; when the command replies anything else than the
\* deletion, the table and the cache are unchanged.
C31_AuthorDeletes ==
    /\ ~author_refused
    /\ \A g \in Guilds, id \in 1..MaxCreated, u \in Users, p \in BOOLEAN, c \in BOOLEAN :
         LET r == delete_reminder_outcome(Cur, g, id, u, p, c) IN
         /\ (IsAuthor(g, id, u) /\ p /\ c) =>
               /\ r.ret = "Rappel supprime"
               /\ id \notin Ids(r.S.db[g])
               /\ DictHas(r.S.cache, g) /\ id \notin Ids(DictGet(r.S.cache, g))
         /\ r.ret # "Rappel supprime" => r.S = Cur

====
